---- MODULE Spec2Model ----
(***************************************************************************)
(* KINESYS backend core: action primitives, trajectory planner, safety     *)
(* validator and the per-session pipeline state machine.                   *)
(*                                                                         *)
(* Units: lengths are integers in centimetres, angles integers in degrees, *)
(* velocities in cm/s, assumed_dt in tenths of a second.  Comparisons of   *)
(* euclidean distances are made on squares, so they are exact.             *)
(***************************************************************************)
EXTENDS Integers, Sequences, FiniteSets, TLC

\* safety_config, sess, snapshots: the backend (configuration, sessions, scene
\* snapshots); probe: the case under test of the unit tests of the validator
\* and of the primitives; client: the services and components of the frontend
VARIABLES safety_config, sess, snapshots, probe, client

vars == <<safety_config, sess, snapshots, probe, client>>

(***************************************************************************)
(* Bounds of the model                                                     *)
(***************************************************************************)
NumSessions == 2
MaxPlanLen == 3

NONE == "NONE"

Sessions == 1..NumSessions

(***************************************************************************)
(* Small helpers                                                           *)
(***************************************************************************)
Max(a, b) == IF a >= b THEN a ELSE b

Abs(a) == IF a >= 0 THEN a ELSE 0 - a

CeilDiv(a, b) == (a + b - 1) \div b

Has(params, key) == key \in DOMAIN params

\* a flattening that puts the waypoints of later steps first
RECURSIVE FlattenBackwards(_)
FlattenBackwards(ss) ==
    IF ss = <<>> THEN <<>> ELSE FlattenBackwards(Tail(ss)) \o Head(ss)

RECURSIVE Flatten(_)
Flatten(ss) == IF ss = <<>> THEN <<>> ELSE Head(ss) \o Flatten(Tail(ss))

(***************************************************************************)
(* Data model                                                              *)
(***************************************************************************)
Waypoint(pos, roll, pitch, yaw, open) ==
    [x |-> pos[1], y |-> pos[2], z |-> pos[3],
     roll |-> roll, pitch |-> pitch, yaw |-> yaw, gripper_open |-> open]

WpAt(pos, open) == Waypoint(pos, 0, 0, 0, open)

WpPos(wp) == <<wp.x, wp.y, wp.z>>

SceneObject(shape, color, pos, size) ==
    [shape |-> shape, color |-> color, position |-> pos, size |-> size,
     is_held |-> FALSE]

SceneState(objects, ee) ==
    [objects |-> objects, end_effector |-> ee, gripper_open |-> TRUE,
     held_object_id |-> NONE, table_height |-> 50]

\* size.y of an object: the height entry of [w, h, d] (box) and [r, h] (cylinder)
SizeY(obj) == IF Len(obj.size) >= 2 THEN obj.size[2] ELSE 2 * obj.size[1]

\* half of the largest extent, the radius used for surface distances
HalfExtent(obj) ==
    LET m == CHOOSE v \in {obj.size[i] : i \in DOMAIN obj.size} :
                 \A i \in DOMAIN obj.size : obj.size[i] <= v
    IN  IF obj.shape = "box" THEN CeilDiv(m, 2) ELSE m

SafetyConfig(dt) ==
    [x_min |-> -150, x_max |-> 150, y_min |-> 0, y_max |-> 300,
     z_min |-> -150, z_max |-> 150,
     table_height |-> 50, table_collision_margin |-> 1,
     max_linear_velocity |-> 250, max_angular_velocity |-> 180,
     max_gripper_force |-> 20, min_obstacle_clearance |-> 2,
     max_waypoint_distance |-> 300, assumed_dt |-> dt]

DEFAULT_ASSUMED_DT == 20

\* the process-wide configuration is one of these, fixed at startup: the
\* defaults (2.0 s per step) and a faster arm (0.5 s per step)
Configs == {SafetyConfig(DEFAULT_ASSUMED_DT), SafetyConfig(DEFAULT_ASSUMED_DT \div 4)}

(***************************************************************************)
(* Action primitive library                                                *)
(***************************************************************************)
PRIMITIVE_REGISTRY ==
    {"APPROACH", "GRASP", "RELEASE", "TRANSLATE", "ROTATE", "PLACE",
     "PUSH", "POUR", "STACK", "SORT", "INSPECT", "WAIT"}

SAFE_CLEARANCE == 25
STACK_MARGIN == 5
APPROACH_OFFSET_Y == 5
ROTATE_STEP_DEG == 15
POUR_STEP_DEG == 20
POUR_DEFAULT_ANGLE == 90
SORT_SPACING == 30
INSPECT_DISTANCE == 15
INSPECT_PITCH == -30
PRIMITIVE_MAX_ANGULAR == 90

\* an unknown id that is quietly resolved to the primitive that does nothing
get_primitive_falling_back(id) ==
    IF id \in PRIMITIVE_REGISTRY THEN [ok |-> TRUE, id |-> id, error |-> NONE]
    ELSE [ok |-> TRUE, id |-> "WAIT", error |-> NONE]

\* the registry lookup: the primitive registered under the id, or a failure
get_primitive(id) ==
    IF id \in PRIMITIVE_REGISTRY THEN [ok |-> TRUE, id |-> id, error |-> NONE]
    ELSE [ok |-> FALSE, id |-> NONE, error |-> "UnknownPrimitiveError"]

Gen(wps) == [ok |-> TRUE, error |-> NONE, waypoints |-> wps]

GenFail(err) == [ok |-> FALSE, error |-> err, waypoints |-> <<>>]

\* lift -> lateral move -> descend, shared by APPROACH and TRANSLATE
LiftMoveDescend(scene, dest) ==
    LET ee == scene.end_effector
        safe_y == Max(ee[2], dest[2] + SAFE_CLEARANCE)
        open == scene.gripper_open
    IN  << WpAt(<<ee[1], safe_y, ee[3]>>, open),
           WpAt(<<dest[1], safe_y, dest[3]>>, open),
           WpAt(dest, open) >>

\* a sequence that opens the gripper back at the safe height, not at the destination
ReleaseAfterRetreat(dest, safe_y) ==
    << WpAt(<<dest[1], safe_y, dest[3]>>, FALSE),
       WpAt(dest, FALSE),
       WpAt(<<dest[1], safe_y, dest[3]>>, TRUE),
       WpAt(<<dest[1], safe_y, dest[3]>>, TRUE) >>

\* above -> descend -> release -> retreat, shared by PLACE and STACK
DescendReleaseRetreat(dest, safe_y) ==
    << WpAt(<<dest[1], safe_y, dest[3]>>, FALSE),
       WpAt(dest, FALSE),
       WpAt(dest, TRUE),
       WpAt(<<dest[1], safe_y, dest[3]>>, TRUE) >>

\* one interpolated step per ROTATE_STEP_DEG, and one step for a rotation by 0
rotate_step_count(degrees) == Max(1, CeilDiv(Abs(degrees), ROTATE_STEP_DEG))

\* an interpolation that leaves out the step that arrives at the angle
RECURSIVE RotateStepsBeforeArrival(_, _, _, _, _, _)
RotateStepsBeforeArrival(pos, open, axis, degrees, n, i) ==
    IF i >= n THEN <<>>
    ELSE LET a == (degrees * i) \div n
         IN  << Waypoint(pos, IF axis = "x" THEN a ELSE 0,
                              IF axis = "y" THEN a ELSE 0,
                              IF axis = "z" THEN a ELSE 0, open) >>
             \o RotateStepsBeforeArrival(pos, open, axis, degrees, n, i + 1)

RECURSIVE RotateSteps(_, _, _, _, _, _)
RotateSteps(pos, open, axis, degrees, n, i) ==
    IF i > n THEN <<>>
    ELSE LET a == (degrees * i) \div n
         IN  << Waypoint(pos, IF axis = "x" THEN a ELSE 0,
                              IF axis = "y" THEN a ELSE 0,
                              IF axis = "z" THEN a ELSE 0, open) >>
             \o RotateSteps(pos, open, axis, degrees, n, i + 1)

\* the key by which SORT orders objects
SortKey(scene, id, criterion) ==
    LET o == scene.objects[id]
    IN  CASE criterion = "size" -> HalfExtent(o)
          [] criterion = "position" -> o.position[1]
          [] OTHER -> IF o.color = "blue" THEN 0 ELSE 1

RECURSIVE SortInsert(_, _, _, _)
SortInsert(scene, sorted, id, criterion) ==
    IF sorted = <<>> THEN <<id>>
    ELSE IF SortKey(scene, id, criterion) < SortKey(scene, Head(sorted), criterion)
         THEN <<id>> \o sorted
         ELSE <<Head(sorted)>> \o SortInsert(scene, Tail(sorted), id, criterion)

RECURSIVE SortIds(_, _, _)
SortIds(scene, ids, criterion) ==
    IF ids = <<>> THEN <<>>
    ELSE SortInsert(scene, SortIds(scene, Tail(ids), criterion), Head(ids), criterion)

RECURSIVE SortWaypoints(_, _, _)
SortWaypoints(scene, ids, i) ==
    IF i > Len(ids) THEN <<>>
    ELSE LET p == scene.objects[ids[i]].position
             slot == <<-30 + (i - 1) * SORT_SPACING, p[2], 60>>
         IN  << WpAt(<<p[1], p[2] + SAFE_CLEARANCE, p[3]>>, TRUE),
                WpAt(p, FALSE),
                WpAt(<<slot[1], p[2] + SAFE_CLEARANCE, slot[3]>>, FALSE),
                WpAt(slot, TRUE) >>
             \o SortWaypoints(scene, ids, i + 1)

\* _get_object: the referenced object id must be a key of the scene
KnownTarget(scene, params, key) ==
    Has(params, key) /\ params[key] \in DOMAIN scene.objects

TargetError(scene, params, key) ==
    IF ~Has(params, key) THEN "ParameterError" ELSE "UnknownTargetError"

generate_waypoints(action, params, scene) ==
    LET ee == scene.end_effector
    IN
    CASE action = "APPROACH" ->
           IF ~KnownTarget(scene, params, "target")
           THEN GenFail(TargetError(scene, params, "target"))
           ELSE LET p == scene.objects[params.target].position
                    off == IF Has(params, "offset") THEN params.offset
                           ELSE <<0, APPROACH_OFFSET_Y, 0>>
                IN  Gen(LiftMoveDescend(scene,
                         <<p[1] + off[1], p[2] + off[2], p[3] + off[3]>>))
      [] action = "GRASP" ->
           IF ~KnownTarget(scene, params, "target")
           THEN GenFail(TargetError(scene, params, "target"))
           ELSE LET p == scene.objects[params.target].position
                IN  Gen(<< WpAt(p, TRUE), WpAt(p, FALSE) >>)
      [] action = "RELEASE" -> Gen(<< WpAt(ee, TRUE) >>)
      [] action = "TRANSLATE" ->
           IF Has(params, "position")
           THEN Gen(LiftMoveDescend(scene, params.position))
           ELSE IF Has(params, "delta")
           THEN Gen(LiftMoveDescend(scene,
                    <<ee[1] + params.delta[1], ee[2] + params.delta[2],
                      ee[3] + params.delta[3]>>))
           ELSE GenFail("ParameterError")
      [] action = "ROTATE" ->
           IF ~(Has(params, "axis") /\ Has(params, "degrees"))
           THEN GenFail("ParameterError")
           ELSE LET n == rotate_step_count(params.degrees)
                IN  Gen(RotateSteps(ee, scene.gripper_open, params.axis,
                                    params.degrees, n, 1))
      [] action = "PLACE" ->
           IF Has(params, "position")
           THEN Gen(DescendReleaseRetreat(params.position,
                                          params.position[2] + SAFE_CLEARANCE))
           ELSE IF ~KnownTarget(scene, params, "target")
           THEN GenFail(TargetError(scene, params, "target"))
           ELSE LET t == scene.objects[params.target]
                    top == t.position[2] + SizeY(t) \div 2 + STACK_MARGIN
                IN  Gen(DescendReleaseRetreat(
                          <<t.position[1], top, t.position[3]>>,
                          top + SAFE_CLEARANCE))
      [] action = "PUSH" ->
           IF ~(Has(params, "direction") /\ Has(params, "distance"))
           THEN GenFail("ParameterError")
           ELSE IF ~KnownTarget(scene, params, "target")
           THEN GenFail(TargetError(scene, params, "target"))
           ELSE LET o == scene.objects[params.target]
                    p == o.position
                    d == params.direction
                    r == HalfExtent(o)
                    open == scene.gripper_open
                    far == <<p[1] + d[1] * params.distance, p[2],
                             p[3] + d[3] * params.distance>>
                IN  Gen(<< WpAt(<<p[1] - d[1] * (r + 10), p[2],
                                  p[3] - d[3] * (r + 10)>>, open),
                           WpAt(<<p[1] - d[1] * r, p[2], p[3] - d[3] * r>>, open),
                           WpAt(far, open),
                           WpAt(<<far[1], far[2] + SAFE_CLEARANCE, far[3]>>, open) >>)
      [] action = "POUR" ->
           IF ~KnownTarget(scene, params, "target_container")
           THEN GenFail(TargetError(scene, params, "target_container"))
           ELSE LET c == scene.objects[params.target_container]
                    angle == IF Has(params, "angle") THEN params.angle
                             ELSE POUR_DEFAULT_ANGLE
                    n == Max(1, CeilDiv(Abs(angle), POUR_STEP_DEG))
                    above == <<c.position[1],
                               c.position[2] + SizeY(c) \div 2 + SAFE_CLEARANCE,
                               c.position[3]>>
                IN  Gen(<< WpAt(above, FALSE) >>
                        \o RotateSteps(above, FALSE, "z", angle, n, 1)
                        \o << Waypoint(above, 0, 0, angle, FALSE),
                              WpAt(above, FALSE) >>)
      [] action = "STACK" ->
           IF ~KnownTarget(scene, params, "target")
           THEN GenFail(TargetError(scene, params, "target"))
           ELSE LET t == scene.objects[params.target]
                    stack_y == t.position[2] + SizeY(t) \div 2 + STACK_MARGIN
                    safe_y == stack_y + SAFE_CLEARANCE
                IN  Gen(DescendReleaseRetreat(
                          <<t.position[1], stack_y, t.position[3]>>, safe_y))
      [] action = "SORT" ->
           IF ~Has(params, "objects") \/ params.objects = <<>>
           THEN GenFail("ParameterError")
           ELSE IF \E i \in DOMAIN params.objects :
                      params.objects[i] \notin DOMAIN scene.objects
           THEN GenFail("UnknownTargetError")
           ELSE LET criterion == IF Has(params, "criterion")
                                 THEN params.criterion ELSE "color"
                IN  Gen(SortWaypoints(scene,
                          SortIds(scene, params.objects, criterion), 1))
      [] action = "INSPECT" ->
           IF ~KnownTarget(scene, params, "target")
           THEN GenFail(TargetError(scene, params, "target"))
           ELSE LET p == scene.objects[params.target].position
                    dist == IF Has(params, "distance") THEN params.distance
                            ELSE INSPECT_DISTANCE
                    view == <<p[1], p[2] + dist, p[3] + dist>>
                IN  Gen(<< Waypoint(view, 0, INSPECT_PITCH, 0, scene.gripper_open),
                           Waypoint(view, 0, INSPECT_PITCH, 0, scene.gripper_open) >>)
      [] action = "WAIT" -> Gen(<< WpAt(ee, scene.gripper_open) >>)
      [] OTHER -> GenFail("UnknownPrimitiveError")

Valid(warnings) == [ok |-> TRUE, error |-> NONE, warnings |-> warnings]

Invalid(err) == [ok |-> FALSE, error |-> err, warnings |-> {}]

BelowTable(waypoints, scene) ==
    \E i \in DOMAIN waypoints : waypoints[i].y < scene.table_height

\* a validation whose GRASP does not look at what the gripper holds
validate_grasp_unchecked(action, waypoints, scene) ==
    CASE action \in {"APPROACH", "TRANSLATE", "PUSH", "SORT", "INSPECT"} ->
           IF BelowTable(waypoints, scene) THEN Invalid("SafetyViolation")
           ELSE Valid({})
      [] action = "RELEASE" ->
           IF scene.held_object_id = NONE THEN Valid({"nothing_held"})
           ELSE Valid({})
      [] action = "ROTATE" ->
           IF \E i \in DOMAIN waypoints : i > 1 /\
                 Abs(waypoints[i].roll - waypoints[i-1].roll)
                 + Abs(waypoints[i].pitch - waypoints[i-1].pitch)
                 + Abs(waypoints[i].yaw - waypoints[i-1].yaw) > PRIMITIVE_MAX_ANGULAR
           THEN Invalid("SafetyViolation")
           ELSE Valid({})
      [] action = "PLACE" ->
           IF scene.held_object_id = NONE THEN Invalid("PreconditionError")
           ELSE IF BelowTable(waypoints, scene) THEN Invalid("SafetyViolation")
           ELSE Valid({})
      [] action \in {"POUR", "STACK"} ->
           IF scene.held_object_id = NONE THEN Invalid("PreconditionError")
           ELSE Valid({})
      [] OTHER -> Valid({})

\* a validation whose RELEASE fails when nothing is held
validate_release_strict(action, waypoints, scene) ==
    CASE action \in {"APPROACH", "TRANSLATE", "PUSH", "SORT", "INSPECT"} ->
           IF BelowTable(waypoints, scene) THEN Invalid("SafetyViolation")
           ELSE Valid({})
      [] action = "GRASP" ->
           IF scene.held_object_id # NONE THEN Invalid("PreconditionError")
           ELSE Valid({})
      [] action = "RELEASE" ->
           IF scene.held_object_id = NONE THEN Invalid("PreconditionError")
           ELSE Valid({})
      [] action = "ROTATE" ->
           IF \E i \in DOMAIN waypoints : i > 1 /\
                 Abs(waypoints[i].roll - waypoints[i-1].roll)
                 + Abs(waypoints[i].pitch - waypoints[i-1].pitch)
                 + Abs(waypoints[i].yaw - waypoints[i-1].yaw) > PRIMITIVE_MAX_ANGULAR
           THEN Invalid("SafetyViolation")
           ELSE Valid({})
      [] action = "PLACE" ->
           IF scene.held_object_id = NONE THEN Invalid("PreconditionError")
           ELSE IF BelowTable(waypoints, scene) THEN Invalid("SafetyViolation")
           ELSE Valid({})
      [] action \in {"POUR", "STACK"} ->
           IF scene.held_object_id = NONE THEN Invalid("PreconditionError")
           ELSE Valid({})
      [] OTHER -> Valid({})

\* the primitive's own validation of the waypoints it generated
validate(action, waypoints, scene) ==
    CASE action \in {"APPROACH", "TRANSLATE", "PUSH", "SORT", "INSPECT"} ->
           IF BelowTable(waypoints, scene) THEN Invalid("SafetyViolation")
           ELSE Valid({})
      [] action = "GRASP" ->
           IF scene.held_object_id # NONE THEN Invalid("PreconditionError")
           ELSE Valid({})
      [] action = "RELEASE" ->
           IF scene.held_object_id = NONE THEN Valid({"nothing_held"})
           ELSE Valid({})
      [] action = "ROTATE" ->
           IF \E i \in DOMAIN waypoints : i > 1 /\
                 Abs(waypoints[i].roll - waypoints[i-1].roll)
                 + Abs(waypoints[i].pitch - waypoints[i-1].pitch)
                 + Abs(waypoints[i].yaw - waypoints[i-1].yaw) > PRIMITIVE_MAX_ANGULAR
           THEN Invalid("SafetyViolation")
           ELSE Valid({})
      [] action = "PLACE" ->
           IF scene.held_object_id = NONE THEN Invalid("PreconditionError")
           ELSE IF BelowTable(waypoints, scene) THEN Invalid("SafetyViolation")
           ELSE Valid({})
      [] action \in {"POUR", "STACK"} ->
           IF scene.held_object_id = NONE THEN Invalid("PreconditionError")
           ELSE Valid({})
      [] OTHER -> Valid({})

\* narration: the verb and the thing it is applied to
describe(action, params) ==
    LET what == IF Has(params, "target") THEN params.target
                ELSE IF Has(params, "target_container") THEN params.target_container
                ELSE "arm"
    IN  <<action, what>>

(***************************************************************************)
(* Safety validator                                                        *)
(***************************************************************************)
DistSq(a, b) ==
    (a.x - b.x) * (a.x - b.x) + (a.y - b.y) * (a.y - b.y)
    + (a.z - b.z) * (a.z - b.z)

AngleSq(a, b) ==
    (a.roll - b.roll) * (a.roll - b.roll)
    + (a.pitch - b.pitch) * (a.pitch - b.pitch)
    + (a.yaw - b.yaw) * (a.yaw - b.yaw)

Violation(constraint, severity, index) ==
    [constraint |-> constraint, severity |-> severity, waypoint_index |-> index]

Pairs(waypoints) == {i \in DOMAIN waypoints : i > 1}

check_workspace_bounds(waypoints, config) ==
    {Violation("workspace_bounds", "error", i) : i \in
        {j \in DOMAIN waypoints :
            \/ waypoints[j].x < config.x_min \/ waypoints[j].x > config.x_max
            \/ waypoints[j].y < config.y_min \/ waypoints[j].y > config.y_max
            \/ waypoints[j].z < config.z_min \/ waypoints[j].z > config.z_max}}

\* a check that measures from the table surface, without the margin
check_table_collision_without_margin(waypoints, config) ==
    {Violation("table_collision", "error", i) : i \in
        {j \in DOMAIN waypoints : waypoints[j].y < config.table_height}}

check_table_collision(waypoints, config) ==
    {Violation("table_collision", "error", i) : i \in
        {j \in DOMAIN waypoints :
            waypoints[j].y < config.table_height - config.table_collision_margin}}

\* a check that also refuses a step made at exactly the limit
check_linear_velocity_inclusive(waypoints, config) ==
    {Violation("max_linear_velocity", "error", i) : i \in
        {j \in Pairs(waypoints) :
            100 * DistSq(waypoints[j], waypoints[j-1]) >=
              (config.max_linear_velocity * config.assumed_dt)
              * (config.max_linear_velocity * config.assumed_dt)}}

\* distance / assumed_dt > max_linear_velocity, with assumed_dt in tenths of a second
check_linear_velocity(waypoints, config) ==
    {Violation("max_linear_velocity", "error", i) : i \in
        {j \in Pairs(waypoints) :
            100 * DistSq(waypoints[j], waypoints[j-1]) >
              (config.max_linear_velocity * config.assumed_dt)
              * (config.max_linear_velocity * config.assumed_dt)}}

check_angular_velocity(waypoints, config) ==
    {Violation("max_angular_velocity", "error", i) : i \in
        {j \in Pairs(waypoints) :
            100 * AngleSq(waypoints[j], waypoints[j-1]) >
              (config.max_angular_velocity * config.assumed_dt)
              * (config.max_angular_velocity * config.assumed_dt)}}

check_waypoint_distance(waypoints, config) ==
    {Violation("max_waypoint_distance", "error", i) : i \in
        {j \in Pairs(waypoints) :
            DistSq(waypoints[j], waypoints[j-1]) >
              config.max_waypoint_distance * config.max_waypoint_distance}}

check_obstacle_clearance(waypoints, scene, config) ==
    {Violation("min_obstacle_clearance", "warning", i) : i \in
        {j \in DOMAIN waypoints :
            \E id \in DOMAIN scene.objects :
                LET o == scene.objects[id]
                    reach == HalfExtent(o) + config.min_obstacle_clearance
                    c == [x |-> o.position[1], y |-> o.position[2],
                          z |-> o.position[3]]
                IN  ~o.is_held /\ DistSq(waypoints[j], c) < reach * reach}}

\* a validator for which a clearance finding makes the trajectory unsafe
validate_trajectory_counting_warnings(waypoints, scene, config) ==
    LET violations == check_workspace_bounds(waypoints, config)
                      \cup check_table_collision(waypoints, config)
                      \cup check_linear_velocity(waypoints, config)
                      \cup check_angular_velocity(waypoints, config)
                      \cup check_waypoint_distance(waypoints, config)
        warnings == check_obstacle_clearance(waypoints, scene, config)
    IN  [is_safe |-> violations = {} /\ warnings = {},
         violations |-> violations,
         warnings |-> warnings,
         summary |-> <<Cardinality(violations), Cardinality(warnings)>>]

validate_trajectory(waypoints, scene, config) ==
    LET violations == check_workspace_bounds(waypoints, config)
                      \cup check_table_collision(waypoints, config)
                      \cup check_linear_velocity(waypoints, config)
                      \cup check_angular_velocity(waypoints, config)
                      \cup check_waypoint_distance(waypoints, config)
        warnings == check_obstacle_clearance(waypoints, scene, config)
    IN  [is_safe |-> violations = {},
         violations |-> violations,
         warnings |-> warnings,
         summary |-> <<Cardinality(violations), Cardinality(warnings)>>]

NoValidation == [is_safe |-> FALSE, violations |-> {}, warnings |-> {},
                 summary |-> <<0, 0>>]

(***************************************************************************)
(* Trajectory planner                                                      *)
(***************************************************************************)
\* a fold whose RELEASE clears held_object_id and leaves the object marked held
update_scene_release_keeps_flag(scene, action, params, waypoints) ==
    LET last == waypoints[Len(waypoints)]
        held == scene.held_object_id
        moved == [scene EXCEPT !.end_effector = WpPos(last)]
    IN
    CASE action = "GRASP" ->
           [moved EXCEPT !.held_object_id = params.target,
                         !.gripper_open = FALSE,
                         !.objects[params.target].is_held = TRUE]
      [] action = "RELEASE" ->
           [moved EXCEPT !.held_object_id = NONE, !.gripper_open = TRUE]
      [] action \in {"PLACE", "STACK"} ->
           [moved EXCEPT !.held_object_id = NONE,
                         !.gripper_open = TRUE,
                         !.objects[held].is_held = FALSE,
                         !.objects[held].position = WpPos(waypoints[3])]
      [] OTHER -> moved

\* a fold whose PLACE and STACK let go of the object without relocating it
update_scene_leaving_object(scene, action, params, waypoints) ==
    LET last == waypoints[Len(waypoints)]
        held == scene.held_object_id
        moved == [scene EXCEPT !.end_effector = WpPos(last)]
    IN
    CASE action = "GRASP" ->
           [moved EXCEPT !.held_object_id = params.target,
                         !.gripper_open = FALSE,
                         !.objects[params.target].is_held = TRUE]
      [] action = "RELEASE" ->
           IF held = NONE
           THEN [moved EXCEPT !.gripper_open = TRUE]
           ELSE [moved EXCEPT !.held_object_id = NONE,
                              !.gripper_open = TRUE,
                              !.objects[held].is_held = FALSE]
      [] action \in {"PLACE", "STACK"} ->
           [moved EXCEPT !.held_object_id = NONE,
                         !.gripper_open = TRUE,
                         !.objects[held].is_held = FALSE]
      [] OTHER -> moved

\* fold the effect of a successfully validated action into the scene
update_scene_after_action(scene, action, params, waypoints) ==
    LET last == waypoints[Len(waypoints)]
        held == scene.held_object_id
        moved == [scene EXCEPT !.end_effector = WpPos(last)]
    IN
    CASE action = "GRASP" ->
           [moved EXCEPT !.held_object_id = params.target,
                         !.gripper_open = FALSE,
                         !.objects[params.target].is_held = TRUE]
      [] action = "RELEASE" ->
           IF held = NONE
           THEN [moved EXCEPT !.gripper_open = TRUE]
           ELSE [moved EXCEPT !.held_object_id = NONE,
                              !.gripper_open = TRUE,
                              !.objects[held].is_held = FALSE]
      [] action \in {"PLACE", "STACK"} ->
           LET release == CHOOSE i \in DOMAIN waypoints :
                   /\ waypoints[i].gripper_open
                   /\ \A j \in DOMAIN waypoints :
                         waypoints[j].gripper_open => i <= j
           IN  [moved EXCEPT !.held_object_id = NONE,
                             !.gripper_open = TRUE,
                             !.objects[held].is_held = FALSE,
                             !.objects[held].position = WpPos(waypoints[release])]
      [] OTHER -> moved

ActionStep(action, params, waypoints, warnings) ==
    [action |-> action, params |-> params, waypoints |-> waypoints,
     narration |-> describe(action, params), warnings |-> warnings]

StepWaypoints(steps) == Flatten([i \in DOMAIN steps |-> steps[i].waypoints])

TrajectoryPlan(steps, safety, valid, err, idx) ==
    [steps |-> steps,
     all_waypoints |-> StepWaypoints(steps),
     safety_result |-> safety,
     narration_sequence |-> [i \in DOMAIN steps |-> steps[i].narration],
     is_valid |-> valid, error |-> err, error_step |-> idx]

\* a planner loop that skips an action that fails and goes on with the next
RECURSIVE plan_loop_skipping_failures(_, _, _, _, _)
plan_loop_skipping_failures(actions, i, steps, current_scene, config) ==
    IF i > Len(actions)
    THEN LET safety == validate_trajectory(StepWaypoints(steps), current_scene, config)
         IN  [plan |-> TrajectoryPlan(steps, safety, safety.is_safe,
                          IF safety.is_safe THEN NONE ELSE "SafetyViolation", 0),
              scene |-> current_scene]
    ELSE LET a == actions[i]
             skip == plan_loop_skipping_failures(actions, i + 1, steps,
                                                 current_scene, config)
         IN  IF a.action \notin PRIMITIVE_REGISTRY THEN skip
             ELSE LET g == generate_waypoints(a.action, a.params, current_scene)
                  IN  IF ~g.ok THEN skip
                      ELSE LET v == validate(a.action, g.waypoints, current_scene)
                           IN  IF ~v.ok THEN skip
                               ELSE plan_loop_skipping_failures(actions, i + 1,
                                      Append(steps, ActionStep(a.action, a.params,
                                                               g.waypoints, v.warnings)),
                                      update_scene_after_action(current_scene,
                                          a.action, a.params, g.waypoints),
                                      config)

\* a planner loop that moves the end effector in the scene before it validates
RECURSIVE plan_loop_moving_before_validate(_, _, _, _, _)
plan_loop_moving_before_validate(actions, i, steps, current_scene, config) ==
    IF i > Len(actions)
    THEN LET safety == validate_trajectory(StepWaypoints(steps), current_scene, config)
         IN  [plan |-> TrajectoryPlan(steps, safety, safety.is_safe,
                          IF safety.is_safe THEN NONE ELSE "SafetyViolation", 0),
              scene |-> current_scene]
    ELSE LET a == actions[i]
             fail(err, scene) ==
                 [plan |-> TrajectoryPlan(steps, NoValidation, FALSE, err, i),
                  scene |-> scene]
         IN  IF a.action \notin PRIMITIVE_REGISTRY
             THEN fail("UnknownPrimitiveError", current_scene)
             ELSE LET g == generate_waypoints(a.action, a.params, current_scene)
                  IN  IF ~g.ok THEN fail(g.error, current_scene)
                      ELSE LET v == validate(a.action, g.waypoints, current_scene)
                               moved == [current_scene EXCEPT !.end_effector =
                                           WpPos(g.waypoints[Len(g.waypoints)])]
                           IN  IF ~v.ok THEN fail(v.error, moved)
                               ELSE plan_loop_moving_before_validate(actions, i + 1,
                                      Append(steps, ActionStep(a.action, a.params,
                                                               g.waypoints, v.warnings)),
                                      update_scene_after_action(moved,
                                          a.action, a.params, g.waypoints),
                                      config)

\* steps 1-5 of the planner loop for action i; stops at the first failure
RECURSIVE plan_loop(_, _, _, _, _)
plan_loop(actions, i, steps, current_scene, config) ==
    IF i > Len(actions)
    THEN LET safety == validate_trajectory(StepWaypoints(steps), current_scene, config)
         IN  [plan |-> TrajectoryPlan(steps, safety, safety.is_safe,
                          IF safety.is_safe THEN NONE ELSE "SafetyViolation", 0),
              scene |-> current_scene]
    ELSE LET a == actions[i]
             fail(err) == [plan |-> TrajectoryPlan(steps, NoValidation, FALSE, err, i),
                           scene |-> current_scene]
             primitive == get_primitive(a.action)
         IN  IF ~primitive.ok
             THEN fail(primitive.error)
             ELSE LET g == generate_waypoints(primitive.id, a.params, current_scene)
                  IN  IF ~g.ok THEN fail(g.error)
                      ELSE LET v == validate(primitive.id, g.waypoints, current_scene)
                           IN  IF ~v.ok THEN fail(v.error)
                               ELSE plan_loop(actions, i + 1,
                                      Append(steps, ActionStep(a.action, a.params,
                                                               g.waypoints, v.warnings)),
                                      update_scene_after_action(current_scene,
                                          primitive.id, a.params, g.waypoints),
                                      config)

plan_trajectory(actions, scene, config) == plan_loop(actions, 1, <<>>, scene, config)

(***************************************************************************)
(* Pipeline state machine: one PipelineState per session                    *)
(***************************************************************************)
PipelineStates ==
    {"IDLE", "LISTENING", "DECOMPOSING", "SCENE_ANALYZING", "PLANNING",
     "VALIDATING", "EXECUTING", "CONFIRMING", "ERROR"}

HITL_WAYPOINT_THRESHOLD == 5
HITL_VELOCITY_FRACTION_TENTHS == 8

NoPlan == TrajectoryPlan(<<>>, NoValidation, FALSE, NONE, 0)

\* the payload of a session that does not exist (IDLE)
IdleSession ==
    [state |-> "IDLE", transcript |-> "", scene_data |-> <<>>,
     scene_ref |-> <<>>,
     action_plan |-> <<>>, scene_description |-> {},
     trajectory_plan |-> NoPlan, waypoints |-> <<>>, narration |-> <<>>,
     validation_result |-> NoValidation, is_safe |-> FALSE,
     requires_confirmation |-> FALSE, confirmation_reason |-> NONE,
     human_confirmation_granted |-> FALSE, awaiting_confirmation |-> FALSE,
     execution_ready |-> FALSE, error_message |-> <<>>]

SnapshotIds == 1..NumSessions

\* a snapshot slot holds <<scene>> while a session owns it and <<>> when free
IsFree(snaps, id) == Len(snaps[id]) = 0

\* an allocator that hands every session the same slot
SharedSnapshot(snaps) == CHOOSE id \in SnapshotIds : \A other \in SnapshotIds : id <= other

\* a fresh snapshot slot for a new session: one that no session holds
FreeSnapshot(snaps) ==
    CHOOSE id \in SnapshotIds :
        /\ IsFree(snaps, id)
        /\ \A other \in SnapshotIds : IsFree(snaps, other) => id <= other

\* scene_ref is <<id>> while the session owns snapshot id, and <<>> otherwise
SceneOf(s) == snapshots[sess[s].scene_ref[1]][1]

\* some adjacent pair moves faster than the HITL fraction of the velocity limit
\* (distance / assumed_dt > fraction * max_linear_velocity; with the fraction in
\* tenths and assumed_dt in tenths of a second this is 100 * distance > k)
HighVelocity(waypoints, config) ==
    LET k == HITL_VELOCITY_FRACTION_TENTHS * config.max_linear_velocity
             * config.assumed_dt
    IN  \E j \in Pairs(waypoints) :
            DistSq(waypoints[j], waypoints[j-1]) > (k * k) \div 10000

\* a gate that already asks at the threshold
check_hitl_at_threshold(waypoints, config) ==
    Len(waypoints) >= HITL_WAYPOINT_THRESHOLD \/ HighVelocity(waypoints, config)

check_hitl(waypoints, config) ==
    Len(waypoints) > HITL_WAYPOINT_THRESHOLD \/ HighVelocity(waypoints, config)

hitl_reason(waypoints, config) ==
    IF Len(waypoints) > HITL_WAYPOINT_THRESHOLD THEN "waypoint_count"
    ELSE IF HighVelocity(waypoints, config) THEN "velocity"
    ELSE NONE

\* a graph whose SCENE_ANALYZING node is wired straight to VALIDATING
next_node_skipping_planning(current, failed) ==
    IF failed THEN "ERROR"
    ELSE CASE current = "IDLE" -> "LISTENING"
           [] current = "LISTENING" -> "DECOMPOSING"
           [] current = "DECOMPOSING" -> "SCENE_ANALYZING"
           [] current = "SCENE_ANALYZING" -> "VALIDATING"
           [] current = "PLANNING" -> "VALIDATING"
           [] current = "VALIDATING" -> "EXECUTING"
           [] current = "EXECUTING" -> "CONFIRMING"
           [] current = "CONFIRMING" -> "IDLE"
           [] current = "ERROR" -> "IDLE"

\* a graph whose ERROR node has no edge back to IDLE
next_node_stuck_in_error(current, failed) ==
    IF failed THEN "ERROR"
    ELSE CASE current = "IDLE" -> "LISTENING"
           [] current = "LISTENING" -> "DECOMPOSING"
           [] current = "DECOMPOSING" -> "SCENE_ANALYZING"
           [] current = "SCENE_ANALYZING" -> "PLANNING"
           [] current = "PLANNING" -> "VALIDATING"
           [] current = "VALIDATING" -> "EXECUTING"
           [] current = "EXECUTING" -> "CONFIRMING"
           [] current = "CONFIRMING" -> "IDLE"
           [] current = "ERROR" -> "ERROR"

\* the graph's edges: the node that follows `current` when it succeeds, and
\* ERROR when it fails
next_node(current, failed) ==
    IF failed THEN "ERROR"
    ELSE CASE current = "IDLE" -> "LISTENING"
           [] current = "LISTENING" -> "DECOMPOSING"
           [] current = "DECOMPOSING" -> "SCENE_ANALYZING"
           [] current = "SCENE_ANALYZING" -> "PLANNING"
           [] current = "PLANNING" -> "VALIDATING"
           [] current = "VALIDATING" -> "EXECUTING"
           [] current = "EXECUTING" -> "CONFIRMING"
           [] current = "CONFIRMING" -> "IDLE"
           [] current = "ERROR" -> "IDLE"

\* a router that looks at the validator's verdict only and forgets the planner's
route_ignoring_plan_validity(plan_valid, is_safe, requires, granted) ==
    IF ~is_safe THEN "ERROR"
    ELSE IF requires /\ ~granted THEN "AWAIT"
    ELSE "EXECUTING"

\* a router that never waits for the confirmation
route_without_gate(plan_valid, is_safe, requires, granted) ==
    IF ~plan_valid \/ ~is_safe THEN "ERROR" ELSE "EXECUTING"

\* where VALIDATING goes: ERROR, the confirmation wait, or EXECUTING
route_after_validating(plan_valid, is_safe, requires, granted) ==
    IF ~plan_valid \/ ~is_safe THEN "ERROR"
    ELSE IF requires /\ ~granted THEN "AWAIT"
    ELSE "EXECUTING"

\* where the confirmation wait goes on an external event or a timeout
route_after_confirmation(event) ==
    IF event = "granted" THEN "EXECUTING" ELSE "ERROR"

WellFormed(plan) ==
    \A i \in DOMAIN plan : {"action", "params"} \subseteq DOMAIN plan[i]

\* an ERROR node that records the message and keeps the rest of the payload
error_payload_keeping_plan(p, msg) ==
    [p EXCEPT !.state = next_node(p.state, TRUE), !.error_message = msg]

\* ERROR: record the message, discard the in-flight plan state
error_payload(p, msg) ==
    [IdleSession EXCEPT !.state = next_node(p.state, TRUE), !.error_message = msg,
                        !.scene_ref = p.scene_ref]

EnterError(s, msg) == sess' = [sess EXCEPT ![s] = error_payload(sess[s], msg)]

(***************************************************************************)
(* Inputs                                                                  *)
(***************************************************************************)
Invocation(a, p) == [action |-> a, params |-> p]

BaseScene ==
    SceneState([id \in {"red_cube", "blue_box"} |->
                  IF id = "red_cube"
                  THEN SceneObject("box", "red", <<30, 55, 0>>, <<10, 10, 10>>)
                  ELSE SceneObject("box", "blue", <<-30, 60, 0>>, <<20, 20, 20>>)],
               <<0, 150, 0>>)

Scenes == {BaseScene}

Transcripts == {"", "stack the red cube on the blue box"}

GraspRed == Invocation("GRASP", [target |-> "red_cube"])
GraspGhost == Invocation("GRASP", [target |-> "ghost"])
StackBlue == Invocation("STACK", [target |-> "blue_box"])
Wait == Invocation("WAIT", [duration_ms |-> 1000])
Release == Invocation("RELEASE", [speed |-> 1])
Fly == Invocation("FLY", [target |-> "red_cube"])
MoveTo(x) == Invocation("TRANSLATE", [position |-> <<x, 150, 0>>])
PlaceFront == Invocation("PLACE", [position |-> <<0, 60, 40>>])
PourBlue == Invocation("POUR", [target_container |-> "blue_box"])

Invocations ==
    {GraspRed, GraspGhost, StackBlue, Wait, Release, Fly,
     MoveTo(100), MoveTo(105), MoveTo(160), PlaceFront, PourBlue}

RECURSIVE SeqsUpTo(_, _)
SeqsUpTo(S, n) ==
    IF n = 0 THEN {<<>>}
    ELSE LET shorter == SeqsUpTo(S, n - 1)
         IN  shorter \cup {Append(q, x) : q \in shorter, x \in S}

\* what the decomposition collaborator hands to a session: an action plan,
\* or the failure of every provider
Supplied(actions) == [available |-> TRUE, actions |-> actions]

Unavailable == [available |-> FALSE, actions |-> <<>>]

Malformed == << [action |-> "GRASP"] >>

AllPlans ==
    {Supplied(a) : a \in SeqsUpTo(Invocations, MaxPlanLen) \cup {Malformed}}
    \cup {Unavailable}

FewPlans ==
    {Supplied(a) : a \in { <<>>, <<Wait>>, <<GraspRed, StackBlue>> }}
    \cup {Unavailable}

\* the inputs of a specification: the plans the collaborator may supply and
\* the values human_confirmation_granted may have when a command arrives
AllInputs == [plans |-> AllPlans, grants |-> BOOLEAN]

FewInputs == [plans |-> FewPlans, grants |-> {FALSE}]

(***************************************************************************)
(* Frontend: websocketService.ts                                           *)
(***************************************************************************)
\* the sockets the service may create and the messages the application may send
MaxSockets == 5

MaxMessages == 2

INITIAL_RECONNECT_DELAY_MS == 1000
MAX_RECONNECT_DELAY_MS == 30000
RECONNECT_BACKOFF_MULTIPLIER == 2
MAX_QUEUE_SIZE == 100

Min(a, b) == IF a <= b THEN a ELSE b

\* sockets: the readyState of every WebSocket created so far; ws: the socket
\* the service refers to (0: null); reconnectTimer: the delay of the pending
\* timer the service refers to (0: none); orphanTimers: pending timers it no
\* longer refers to; submitted: the messages passed to send(), numbered from 1;
\* wire: the messages handed to a socket, in order
InitialSocketService ==
    [ws |-> 0, sockets |-> <<>>, status |-> "disconnected",
     messageQueue |-> <<>>, reconnectDelay |-> INITIAL_RECONNECT_DELAY_MS,
     reconnectTimer |-> 0, orphanTimers |-> 0, heartbeatTimer |-> FALSE,
     manualClose |-> FALSE, submitted |-> 0, wire |-> <<>>]

\* this.ws?.readyState === WebSocket.OPEN
SocketOpen(w) == w.ws # 0 /\ w.sockets[w.ws] = "OPEN"

setStatus(w, status) == [w EXCEPT !.status = status]

flushQueue(w) ==
    IF SocketOpen(w)
    THEN [w EXCEPT !.wire = w.wire \o w.messageQueue, !.messageQueue = <<>>]
    ELSE w

clearTimers(w) == [w EXCEPT !.reconnectTimer = 0, !.heartbeatTimer = FALSE]

\* setTimeout with the current delay; a timer already pending keeps running
scheduleReconnect(w) ==
    IF w.manualClose THEN w
    ELSE [setStatus(w, "reconnecting") EXCEPT
            !.orphanTimers = IF w.reconnectTimer # 0 THEN @ + 1 ELSE @,
            !.reconnectTimer = w.reconnectDelay]

connect(w) ==
    IF w.ws # 0 /\ w.sockets[w.ws] \in {"OPEN", "CONNECTING"} THEN w
    ELSE [setStatus(w, "connecting") EXCEPT
            !.manualClose = FALSE,
            !.sockets = Append(@, "CONNECTING"),
            !.ws = Len(w.sockets) + 1]

disconnect(w) ==
    LET cleared == clearTimers([w EXCEPT !.manualClose = TRUE])
        closed == IF w.ws # 0
                  THEN [cleared EXCEPT !.sockets[w.ws] = "CLOSING", !.ws = 0]
                  ELSE cleared
    IN  setStatus(closed, "disconnected")

send(w, message) ==
    IF SocketOpen(w) THEN [w EXCEPT !.wire = Append(@, message)]
    ELSE IF Len(w.messageQueue) < MAX_QUEUE_SIZE
    THEN [w EXCEPT !.messageQueue = Append(@, message)]
    ELSE w

\* the socket is open by the time its onopen handler runs
handleOpen(w, i) ==
    LET opened == [w EXCEPT !.sockets[i] = "OPEN"]
        reset == [setStatus(opened, "connected") EXCEPT
                    !.reconnectDelay = INITIAL_RECONNECT_DELAY_MS]
    IN  [flushQueue(reset) EXCEPT !.heartbeatTimer = TRUE]

\* the socket is closed by the time its onclose handler runs
handleClose(w, i) ==
    LET closed == [w EXCEPT !.sockets[i] = "CLOSED", !.heartbeatTimer = FALSE,
                            !.ws = 0]
    IN  IF ~closed.manualClose THEN scheduleReconnect(closed)
        ELSE setStatus(closed, "disconnected")

\* the callback of the reconnect timer
reconnectCallback(w) ==
    LET c == connect(w)
    IN  [c EXCEPT !.reconnectDelay =
            Min(c.reconnectDelay * RECONNECT_BACKOFF_MULTIPLIER,
                MAX_RECONNECT_DELAY_MS)]

(***************************************************************************)
(* Frontend: speechService.ts                                              *)
(***************************************************************************)
\* restart timers that may be pending at once, and automatic restarts counted
MaxPending == 2

MaxRestarts == 3

\* recognition: the state of the browser's SpeechRecognition object, which is
\* inactive, starting, running or stopping; restartTimers: the pending
\* setTimeout callbacks of handleEnd; restarts: the starts made by those
\* callbacks; requested: whether the last call of the API was start()
InitialSpeechService ==
    [status |-> "idle", restartOnEnd |-> FALSE, recognition |-> "inactive",
     restartTimers |-> 0, restarts |-> 0, requested |-> FALSE]

\* recognition.start(): throws InvalidStateError unless inactive, and the
\* callers ignore the exception
recognition_start(sp) ==
    IF sp.recognition = "inactive" THEN [sp EXCEPT !.recognition = "starting"]
    ELSE sp

recognition_stop(sp) ==
    IF sp.recognition \in {"starting", "running"}
    THEN [sp EXCEPT !.recognition = "stopping"]
    ELSE sp

speech_start(sp) ==
    IF sp.status = "listening" THEN sp
    ELSE recognition_start([sp EXCEPT !.restartOnEnd = TRUE])

speech_stop(sp) ==
    [recognition_stop([sp EXCEPT !.restartOnEnd = FALSE]) EXCEPT !.status = "idle"]

\* the timer is set when recognition ends with restartOnEnd
handleEnd(sp) ==
    IF sp.restartOnEnd THEN [sp EXCEPT !.restartTimers = @ + 1]
    ELSE [sp EXCEPT !.status = "idle"]

\* a callback that starts recognition without looking at restartOnEnd again
restartCallback_unconditional(sp) ==
    LET started == recognition_start(sp)
    IN  IF started.recognition # sp.recognition
        THEN [started EXCEPT !.restarts = @ + 1]
        ELSE started

\* the callback looks at restartOnEnd again before it starts recognition
restartCallback(sp) ==
    IF sp.restartOnEnd
    THEN LET started == recognition_start(sp)
         IN  IF started.recognition # sp.recognition
             THEN [started EXCEPT !.restarts = @ + 1]
             ELSE started
    ELSE sp

(***************************************************************************)
(* Frontend: TeachPanel.tsx                                                *)
(***************************************************************************)
\* the actions an extraction may hold
MaxActions == 2

ExtractedAction(step, needs_confirmation, valid_primitive) ==
    [step |-> step, needs_confirmation |-> needs_confirmation,
     valid_primitive |-> valid_primitive]

\* the extractions the backend may return: actions numbered from 1, each
\* with or without a valid primitive and a need for confirmation
Extractions ==
    UNION {[1..n -> BOOLEAN \X BOOLEAN] : n \in 0..MaxActions}

ExtractionResult(flags) ==
    [present |-> TRUE,
     actions |-> [i \in DOMAIN flags |->
                     ExtractedAction(i, flags[i][1], flags[i][2])]]

NoExtraction == [present |-> FALSE, actions |-> <<>>]

NoMessages == <<>>

\* extraction, confirmedActions, phase, errorMsg, keyframes: the state of the
\* component; sent: the messages the last handler passed to wsService.send;
\* spoken: what it passed to ttsService.speak; decided: what the user last
\* chose for each step of the extraction on display
InitialTeachPanel ==
    [phase |-> "IDLE", extraction |-> NoExtraction, confirmedActions |-> {},
     errorMsg |-> FALSE, keyframes |-> 0,
     sent |-> NoMessages, spoken |-> "",
     decided |-> [i \in 1..MaxActions |-> "undecided"]]

\* what a handler starts from: nothing sent or spoken yet
Handling(t) == [t EXCEPT !.sent = NoMessages, !.spoken = ""]

Undecided == [i \in 1..MaxActions |-> "undecided"]

\* a handler that adds the automatic confirmations to the ones it had
teach_extract_result_keeping_confirmations(t, result) ==
    LET autoConfirmed ==
          {result.actions[i].step : i \in
              {j \in DOMAIN result.actions :
                  ~result.actions[j].needs_confirmation
                  /\ result.actions[j].valid_primitive}}
    IN  [Handling(t) EXCEPT
           !.extraction = result,
           !.confirmedActions = @ \cup autoConfirmed,
           !.phase = "REVIEWING",
           !.decided = Undecided,
           !.spoken = IF \E j \in DOMAIN result.actions :
                            result.actions[j].needs_confirmation
                      THEN "is that right" ELSE "extracted"]

\* the handler of teach_extract_result: the actions that need no
\* confirmation and are valid are confirmed automatically
teach_extract_result(t, result) ==
    LET autoConfirmed ==
          {result.actions[i].step : i \in
              {j \in DOMAIN result.actions :
                  ~result.actions[j].needs_confirmation
                  /\ result.actions[j].valid_primitive}}
    IN  [Handling(t) EXCEPT
           !.extraction = result,
           !.confirmedActions = autoConfirmed,
           !.phase = "REVIEWING",
           !.decided = Undecided,
           !.spoken = IF \E j \in DOMAIN result.actions :
                            result.actions[j].needs_confirmation
                      THEN "is that right" ELSE "extracted"]

\* extraction.actions.filter(a => confirmedActions.has(a.step) && a.valid_primitive)
actionsToExecute(t) ==
    SelectSeq(t.extraction.actions,
              LAMBDA a : a.step \in t.confirmedActions /\ a.valid_primitive)

handleExecute(t) ==
    IF ~t.extraction.present THEN Handling(t)
    ELSE IF actionsToExecute(t) = <<>>
    THEN [Handling(t) EXCEPT !.spoken = "no actions confirmed"]
    ELSE [Handling(t) EXCEPT
            !.phase = "EXECUTING",
            !.spoken = "executing",
            !.sent = << [type |-> "teach_execute",
                         actions |-> actionsToExecute(t)] >>]

(***************************************************************************)
(* Frontend: game/puzzleEngine.ts                                          *)
(***************************************************************************)
\* the puzzles of puzzleConfig, the actions counted during play, and the
\* intervals that may be left running without a handle
NumPuzzles == 2

MaxCounted == 2

MaxOrphans == 1

PuzzleIds == 1..NumPuzzles

PuzzlePhase ==
    {"IDLE", "SELECTING", "READY", "PLAYING", "CHECKING", "COMPLETE", "FAILED"}

\* activePuzzle: the id of the puzzle (0: null); lastScore: null, or the
\* score of a success or of a failure; timers: timerHandle, checkHandle and
\* unsubCommandMode are set; orphans: intervals started and never cleared
\* because startPuzzle overwrote their handles
InitialPuzzleEngine ==
    [phase |-> "IDLE", activePuzzle |-> 0, actionCount |-> 0,
     lastScore |-> "null", completedPuzzles |-> {},
     timers |-> FALSE, orphans |-> 0]

stopTimers(e) == [e EXCEPT !.timers = FALSE]

finishPuzzle(e, success) ==
    LET stopped == stopTimers(e)
    IN  IF stopped.activePuzzle = 0 THEN stopped
        ELSE [stopped EXCEPT
                !.lastScore = IF success THEN "success" ELSE "failure",
                !.completedPuzzles =
                    IF success THEN @ \cup {stopped.activePuzzle} ELSE @,
                !.phase = IF success THEN "COMPLETE" ELSE "FAILED"]

(***************************************************************************)
(* scoreCalculator: the in-memory leaderboard                              *)
(***************************************************************************)
\* number of addToLeaderboard calls a behaviour makes
MaxAdds == 11

\* leaderboard.slice(0, 10)
LEADERBOARD_SIZE == 10

\* total scores a solved puzzle is entered with: the 500 of a success plus
\* what the time and the number of actions earned
Scores == {500, 560, 620}

\* the id stands for the generated id and timestamp: the position of the
\* call among the calls so far
LeaderboardEntry(score, id) == [score |-> score, id |-> id]

\* added: every entry passed to addToLeaderboard since the list was last empty
InitialLeaderboard == [leaderboard |-> <<>>, added |-> {}]

\* one step of the stable sort: e goes behind every entry the comparator
\* (a, b) => b.score - a.score does not put after it
InsertByScore(sorted, e) ==
    LET n == Cardinality({i \in 1..Len(sorted) : sorted[i].score >= e.score})
    IN SubSeq(sorted, 1, n) \o <<e>> \o SubSeq(sorted, n + 1, Len(sorted))

\* leaderboard.sort((a, b) => b.score - a.score)
RECURSIVE sortByScore(_)
sortByScore(entries) ==
    IF entries = <<>> THEN <<>>
    ELSE InsertByScore(sortByScore(SubSeq(entries, 1, Len(entries) - 1)),
                       entries[Len(entries)])

\* entries.slice(0, n)
slice(entries, n) == SubSeq(entries, 1, Min(n, Len(entries)))

\* the list cut to ten before it is sorted
addToLeaderboard_slicing_first(b, score) ==
    LET full == LeaderboardEntry(score, Cardinality(b.added) + 1)
    IN [leaderboard |-> sortByScore(slice(Append(b.leaderboard, full),
                                          LEADERBOARD_SIZE)),
        added |-> b.added \cup {full}]

\* push, sort descending by score, keep the first ten
addToLeaderboard(b, score) ==
    LET full == LeaderboardEntry(score, Cardinality(b.added) + 1)
    IN [leaderboard |-> slice(sortByScore(Append(b.leaderboard, full)),
                              LEADERBOARD_SIZE),
        added |-> b.added \cup {full}]

(***************************************************************************)
(* commandMode: the voice-to-action orchestrator of the frontend           *)
(***************************************************************************)
\* calls of sendCommand a behaviour makes
MaxCommands == 3

\* waypoints a plan_result carries
MaxWaypoints == 2

\* the states a status_update of the backend names while it works on a command
StatusStates == {"PLANNING", "VALIDATING", "EXECUTING"}

\* calls: calls of sendCommand so far; awaiting: voice_command messages not
\* yet answered; received: the answers in their order, a plan_result as
\* "valid" or "invalid" by its plan.is_valid; executions: the calls of
\* executeWaypoints that have not returned, each with the plan it runs (its
\* place in received) and the waypoints it has left; armLog: the plans whose
\* waypoints were handed to the arm controller; idleTimers: the pending
\* setTimeout(() => this.setState("IDLE"), ...)
InitialCommandMode ==
    [state |-> "IDLE", executing |-> FALSE, calls |-> 0, awaiting |-> 0,
     received |-> <<>>, executions |-> {}, armLog |-> {}, idleTimers |-> 0]

\* one pass of the loop of executeWaypoints up to its await: the gripper
\* command and moveToPosition of the next waypoint
driveWaypoint(c, x) ==
    [c EXCEPT !.executions = (@ \ {x}) \cup {[x EXCEPT !.left = @ - 1]},
              !.armLog = @ \cup {x.plan}]

\* what handlePlanResult does once executeWaypoints has returned; the arm
\* controller's failures are caught inside the loop, so the catch branch is
\* never taken
finishExecution(c, x) ==
    [c EXCEPT !.state = "DONE", !.executing = FALSE,
              !.executions = @ \ {x}, !.idleTimers = @ + 1]

\* the waypoints executed whatever plan.is_valid says
handlePlanResult_unchecked(c, is_valid, n) ==
    LET x == [plan |-> Len(c.received) + 1, left |-> n]
        run == [c EXCEPT !.received = Append(@, IF is_valid THEN "valid"
                                                           ELSE "invalid"),
                         !.awaiting = @ - 1,
                         !.state = "EXECUTING", !.executing = TRUE,
                         !.executions = @ \cup {x}]
    IN IF n = 0 THEN finishExecution(run, x) ELSE driveWaypoint(run, x)

\* handlePlanResult up to its first wait: an invalid plan shows ERROR and
\* arms the timer; a valid one shows EXECUTING, sets executing and runs
\* executeWaypoints, which returns at once without waypoints and otherwise
\* waits after the first one
handlePlanResult(c, is_valid, n) ==
    LET got == [c EXCEPT !.received = Append(@, IF is_valid THEN "valid"
                                                           ELSE "invalid"),
                         !.awaiting = @ - 1]
        x == [plan |-> Len(c.received) + 1, left |-> n]
        run == [got EXCEPT !.state = "EXECUTING", !.executing = TRUE,
                           !.executions = @ \cup {x}]
    IN IF ~is_valid
       THEN [got EXCEPT !.state = "ERROR", !.idleTimers = @ + 1]
       ELSE IF n = 0 THEN finishExecution(run, x) ELSE driveWaypoint(run, x)

handlePlanError(c) ==
    [c EXCEPT !.received = Append(@, "plan_error"), !.awaiting = @ - 1,
              !.state = "ERROR", !.idleTimers = @ + 1]

(***************************************************************************)
(* armController: the movement queue of the simulated arm                  *)
(* Angles are in eighths of a radian, times in eighths of a second and the *)
(* gripper's openness in eighths; the tolerance of 0.001 rad is less than  *)
(* one unit, so a joint is within it exactly when the angles are equal.    *)
(* Positions are in centimetres.                                           *)
(***************************************************************************)
\* calls of moveToPosition and setJointAngles a behaviour makes
MaxMoves == 3

INTERPOLATION_SPEED == 2
GRIPPER_SPEED == 4

\* gripperOpenness of the fully open gripper
FULL_OPEN == 8

WORKSPACE_BOUNDS == [x |-> <<-150, 150>>, y |-> <<0, 300>>, z |-> <<-150, 150>>]

isWithinWorkspace(pos) ==
    /\ pos.x >= WORKSPACE_BOUNDS.x[1] /\ pos.x <= WORKSPACE_BOUNDS.x[2]
    /\ pos.y >= WORKSPACE_BOUNDS.y[1] /\ pos.y <= WORKSPACE_BOUNDS.y[2]
    /\ pos.z >= WORKSPACE_BOUNDS.z[1] /\ pos.z <= WORKSPACE_BOUNDS.z[2]

\* the positions moveToPosition is called with: over the red cube, on a
\* corner of the workspace, and just outside it on one side and below
Positions ==
    {[x |-> 80, y |-> 65, z |-> 30], [x |-> 150, y |-> 0, z |-> -150],
     [x |-> 151, y |-> 65, z |-> 30], [x |-> 80, y |-> -1, z |-> 30]}

Joints == 1..3

initialAngles == <<0, 2, -4>>

\* the joint angles a command may ask for: the initial ones and two others
Targets == {initialAngles, <<2, 4, -4>>, <<-3, 2, -1>>}

\* the speed factor of a command, and the time between two frames
Speeds == {1, 2}

FrameTimes == {1, 2}

\* what solveIK may return for a position: whether it converged, whether its
\* error is above 0.1, and the angles it found
IKResults == [success : BOOLEAN, far : BOOLEAN, angles : Targets]

NoCommand == [id |-> 0, targetAngles |-> initialAngles, speed |-> 0]

\* calls: the calls of moveToPosition and setJointAngles so far, each call
\* known by its number; enqueued: the commands pushed on the queue, in
\* order; resolved: the commands whose promise was resolved, in order;
\* rejected: the calls whose promise was rejected; outside: the calls whose
\* target was outside the workspace.  heldObjectId stays null, as the
\* application closes the gripper without naming an object, and the
\* end-effector position is a function of the joint angles
InitialArmController ==
    [jointAngles |-> initialAngles, targetAngles |-> initialAngles,
     gripperState |-> "open", gripperOpenness |-> FULL_OPEN,
     isMoving |-> FALSE, commandQueue |-> <<>>, currentCommand |-> NoCommand,
     calls |-> 0, enqueued |-> <<>>, resolved |-> <<>>, rejected |-> {},
     outside |-> {}]

enqueue(a, targetAngles, speed) ==
    LET command == [id |-> a.calls + 1, targetAngles |-> targetAngles,
                    speed |-> speed]
    IN [a EXCEPT !.calls = @ + 1, !.commandQueue = Append(@, command),
                 !.enqueued = Append(@, command)]

moveToPosition(a, pos, result, speed) ==
    IF ~isWithinWorkspace(pos) \/ (~result.success /\ result.far)
    THEN [a EXCEPT !.calls = @ + 1, !.rejected = @ \cup {a.calls + 1}]
    ELSE enqueue(a, result.angles, speed)

setJointAngles(a, angles, speed) == enqueue(a, angles, speed)

Sign(n) == IF n > 0 THEN 1 ELSE IF n < 0 THEN -1 ELSE 0

updateGripper(a, dt) ==
    LET speed == GRIPPER_SPEED * dt
    IN IF a.gripperState = "opening"
       THEN LET openness == Min(FULL_OPEN, a.gripperOpenness + speed)
            IN [a EXCEPT !.gripperOpenness = openness,
                         !.gripperState = IF openness >= FULL_OPEN
                                          THEN "open" ELSE @]
       ELSE IF a.gripperState = "closing"
       THEN LET openness == Max(0, a.gripperOpenness - speed)
            IN [a EXCEPT !.gripperOpenness = openness,
                         !.gripperState = IF openness <= 0
                                          THEN "closed" ELSE @]
       ELSE a

\* the next command taken from the queue when none is current
takeCommand(a) ==
    IF a.currentCommand = NoCommand /\ a.commandQueue # <<>>
    THEN [a EXCEPT !.currentCommand = Head(a.commandQueue),
                   !.commandQueue = Tail(@),
                   !.targetAngles = Head(a.commandQueue).targetAngles,
                   !.isMoving = TRUE]
    ELSE a

\* the joints moved one frame towards the target
interpolate(a, dt) ==
    LET speed == INTERPOLATION_SPEED * a.currentCommand.speed * dt
    IN [a EXCEPT !.jointAngles = [i \in Joints |->
          LET diff == a.targetAngles[i] - a.jointAngles[i]
          IN IF Abs(diff) > 0
             THEN a.jointAngles[i] + Sign(diff) * Min(Abs(diff), speed)
             ELSE a.jointAngles[i]]]

resolveCommand(a) ==
    [a EXCEPT !.isMoving = Len(a.commandQueue) > 0,
              !.resolved = Append(@, a.currentCommand.id),
              !.currentCommand = NoCommand]

\* a frame in which the current command is resolved whether or not the
\* joints were at its target
update_resolving_at_once(a, dt) ==
    LET taken == takeCommand(a)
        moved == IF taken.currentCommand = NoCommand THEN taken
                 ELSE resolveCommand(interpolate(taken, dt))
    IN updateGripper(moved, dt)

\* update(dt): allDone is decided by the angles the frame began with
update(a, dt) ==
    LET taken == takeCommand(a)
        allDone == \A i \in Joints :
                      ~(Abs(taken.targetAngles[i] - taken.jointAngles[i]) > 0)
        moved == IF taken.currentCommand = NoCommand THEN taken
                 ELSE IF allDone THEN resolveCommand(interpolate(taken, dt))
                 ELSE interpolate(taken, dt)
    IN updateGripper(moved, dt)

(***************************************************************************)
(* ttsService: the queue in front of the browser's speech synthesizer      *)
(***************************************************************************)
\* calls of speak() a behaviour makes; the texts are numbered by their call
MaxTexts == 4

\* pending: the utterances handed to window.speechSynthesis and not yet
\* begun, in its order; current: the utterance it is speaking (0: none);
\* cancelled: utterances removed by synth.cancel() whose error event has not
\* been delivered yet; handed: every text passed to synth.speak(), in order.
\* The browser is taken to support speech synthesis
InitialTTSService ==
    [status |-> "idle", queue |-> <<>>, speaking |-> FALSE, calls |-> 0,
     pending |-> <<>>, current |-> 0, cancelled |-> 0, handed |-> <<>>]

\* processQueue(): idle when the queue is empty, else its first text goes to
\* synth.speak(); speaking is set by the utterance's onstart, not here
processQueue(t) ==
    IF t.queue = <<>>
    THEN [t EXCEPT !.speaking = FALSE, !.status = "idle"]
    ELSE [t EXCEPT !.queue = Tail(@),
                   !.pending = Append(@, Head(t.queue)),
                   !.handed = Append(@, Head(t.queue))]

\* cancel(): synth.cancel() removes every utterance of the synthesizer, each
\* of which is sent an error event later
tts_cancel(t) ==
    [t EXCEPT !.queue = <<>>, !.speaking = FALSE, !.status = "idle",
              !.cancelled = @ + Len(t.pending) + (IF t.current # 0 THEN 1 ELSE 0),
              !.pending = <<>>, !.current = 0]

tts_speak(t, text, priority) ==
    LET queued == IF priority THEN [tts_cancel(t) EXCEPT !.queue = <<text>>]
                  ELSE [t EXCEPT !.queue = Append(@, text)]
    IN IF ~queued.speaking THEN processQueue(queued) ELSE queued

InitialClient ==
    [ws |-> InitialSocketService, speech |-> InitialSpeechService,
     teach |-> InitialTeachPanel, puzzle |-> InitialPuzzleEngine,
     scores |-> InitialLeaderboard, command |-> InitialCommandMode,
     arm |-> InitialArmController, tts |-> InitialTTSService]

(***************************************************************************)
(* Unit tests of the validator and of the primitives: the cases they run   *)
(***************************************************************************)
\* the lengths (cm) of the single step of a test trajectory, around the
\* limits of both configurations, and the heights (cm) it is made at
StepLengths == {0, 100, 124, 125, 126, 300, 301, 499, 500, 501, 510}

StepDepths == {0, 400}

Heights == {0, 48, 49, 50, 150}

\* one step from (0, y, 0) to (dx, y, dz), as in test_velocity_at_limit
OneStep(dx, y, dz) == << WpAt(<<0, y, 0>>, TRUE), WpAt(<<dx, y, dz>>, TRUE) >>

TestTrajectories ==
    {OneStep(dx, y, dz) : dx \in StepLengths, y \in Heights, dz \in StepDepths}
    \cup {<< WpAt(<<0, y, 0>>, TRUE) >> : y \in Heights}
    \cup {<<>>}

\* the scene of the tests with the red cube in the gripper
HoldingScene ==
    [BaseScene EXCEPT !.held_object_id = "red_cube", !.gripper_open = FALSE,
                      !.objects["red_cube"].is_held = TRUE]

\* a scene whose blue object is a cylinder [r, h] standing higher
CylinderScene ==
    [HoldingScene EXCEPT !.objects["blue_box"] =
        SceneObject("cylinder", "blue", <<-30, 65, 0>>, <<5, 30>>)]

TestScenes == {BaseScene, HoldingScene, CylinderScene}

NoParams == [k \in {} |-> 0]

TestInvocations ==
    Invocations \cup
    {Invocation("APPROACH", [target |-> "red_cube"]),
     Invocation("APPROACH", [target |-> "blue_box", offset |-> <<0, 10, 0>>]),
     Invocation("TRANSLATE", [delta |-> <<10, 0, 10>>]),
     Invocation("TRANSLATE", NoParams),
     Invocation("ROTATE", [axis |-> "z", degrees |-> 0]),
     Invocation("ROTATE", [axis |-> "x", degrees |-> 90]),
     Invocation("ROTATE", [axis |-> "y", degrees |-> -40]),
     Invocation("PLACE", [target |-> "blue_box"]),
     Invocation("PUSH", [target |-> "red_cube", direction |-> <<1, 0, 0>>,
                         distance |-> 20]),
     Invocation("POUR", [target_container |-> "blue_box", angle |-> 0]),
     Invocation("STACK", [target |-> "red_cube"]),
     Invocation("STACK", NoParams),
     Invocation("SORT", [objects |-> <<"red_cube">>]),
     Invocation("SORT", [objects |-> <<"red_cube", "blue_box">>,
                         criterion |-> "size"]),
     Invocation("SORT", [objects |-> <<>>]),
     Invocation("INSPECT", [target |-> "blue_box"]),
     Invocation("WAIT", NoParams)}

\* no case under test
NoProbe ==
    [trajectory |-> <<>>, config |-> SafetyConfig(DEFAULT_ASSUMED_DT),
     invocation |-> Wait, scene |-> BaseScene,
     checked |-> FALSE, safety_result |-> NoValidation,
     ran |-> FALSE, generated |-> GenFail(NONE), validation |-> Invalid(NONE),
     narration |-> <<>>]

\* the cases of test_safety.py and of test_primitives.py
TestCases ==
    {[NoProbe EXCEPT !.trajectory = t, !.config = c] :
        t \in TestTrajectories, c \in Configs}
    \cup {[NoProbe EXCEPT !.invocation = i, !.scene = sc] :
        i \in TestInvocations, sc \in TestScenes}

(***************************************************************************)
(* Actions                                                                 *)
(***************************************************************************)
Init ==
    /\ safety_config \in Configs
    /\ sess = [s \in Sessions |-> IdleSession]
    /\ snapshots = [id \in SnapshotIds |-> <<>>]
    /\ probe = NoProbe
    /\ client = InitialClient

\* startup with the default limits
InitDefault == Init /\ safety_config = SafetyConfig(DEFAULT_ASSUMED_DT)

\* IDLE -> LISTENING: a command arrives; the session and its snapshot are created
StartCommand(s, grants) ==
    /\ sess[s].state = "IDLE"
    /\ \E transcript \in Transcripts, scene \in Scenes, granted \in grants :
          LET ref == FreeSnapshot(snapshots)
          IN  /\ snapshots' = [snapshots EXCEPT ![ref] = <<scene>>]
              /\ sess' = [sess EXCEPT ![s] =
                            [IdleSession EXCEPT !.state = next_node("IDLE", FALSE),
                                                !.transcript = transcript,
                                                !.scene_data = <<scene>>,
                                                !.scene_ref = <<ref>>,
                                                !.human_confirmation_granted = granted]]
    /\ UNCHANGED <<safety_config, probe, client>>

listening_node(s) ==
    /\ sess[s].state = "LISTENING"
    /\ IF sess[s].transcript = ""
       THEN EnterError(s, <<"EmptyTranscript">>)
       ELSE sess' = [sess EXCEPT ![s].state = next_node("LISTENING", FALSE)]
    /\ UNCHANGED <<safety_config, snapshots, probe, client>>

\* a DECOMPOSING node that passes an empty action plan on
decomposing_node_accepting_empty(s, plans) ==
    /\ sess[s].state = "DECOMPOSING"
    /\ \E supplied \in plans :
          IF ~supplied.available
          THEN EnterError(s, <<"DecompositionUnavailable">>)
          ELSE IF ~WellFormed(supplied.actions)
          THEN EnterError(s, <<"InvalidActionPlan">>)
          ELSE sess' = [sess EXCEPT ![s].state = next_node("DECOMPOSING", FALSE),
                                    ![s].action_plan = supplied.actions]
    /\ UNCHANGED <<safety_config, snapshots, probe, client>>

\* a DECOMPOSING node under which the exhaustion of the providers takes the
\* process down: every session and every snapshot is lost
decomposing_node_crashing(s, plans) ==
    /\ sess[s].state = "DECOMPOSING"
    /\ \E supplied \in plans :
          IF ~supplied.available
          THEN /\ sess' = [t \in Sessions |-> IdleSession]
               /\ snapshots' = [id \in SnapshotIds |-> <<>>]
          ELSE /\ IF Len(supplied.actions) = 0 \/ ~WellFormed(supplied.actions)
                  THEN EnterError(s, <<"InvalidActionPlan">>)
                  ELSE sess' = [sess EXCEPT
                                  ![s].state = next_node("DECOMPOSING", FALSE),
                                  ![s].action_plan = supplied.actions]
               /\ snapshots' = snapshots
    /\ UNCHANGED <<safety_config, probe, client>>

decomposing_node(s, plans) ==
    /\ sess[s].state = "DECOMPOSING"
    /\ \E supplied \in plans :
          IF ~supplied.available
          THEN EnterError(s, <<"DecompositionUnavailable">>)
          ELSE IF Len(supplied.actions) = 0 \/ ~WellFormed(supplied.actions)
          THEN EnterError(s, <<"InvalidActionPlan">>)
          ELSE sess' = [sess EXCEPT ![s].state = next_node("DECOMPOSING", FALSE),
                                    ![s].action_plan = supplied.actions]
    /\ UNCHANGED <<safety_config, snapshots, probe, client>>

scene_analyzing_node(s) ==
    /\ sess[s].state = "SCENE_ANALYZING"
    /\ sess' = [sess EXCEPT ![s].state = next_node("SCENE_ANALYZING", FALSE),
                            ![s].scene_description = DOMAIN SceneOf(s).objects]
    /\ UNCHANGED <<safety_config, snapshots, probe, client>>

planning_node(s) ==
    /\ sess[s].state = "PLANNING"
    /\ LET r == plan_trajectory(sess[s].action_plan, SceneOf(s), safety_config)
       IN  /\ sess' = [sess EXCEPT ![s].state = next_node("PLANNING", FALSE),
                                   ![s].trajectory_plan = r.plan,
                                   ![s].waypoints = r.plan.all_waypoints,
                                   ![s].narration = r.plan.narration_sequence]
           /\ snapshots' = [snapshots EXCEPT ![sess[s].scene_ref[1]] = <<r.scene>>]
    /\ UNCHANGED <<safety_config, probe, client>>

validating_node(s) ==
    /\ sess[s].state = "VALIDATING"
    /\ ~sess[s].awaiting_confirmation
    /\ LET p == sess[s]
           v == validate_trajectory(p.waypoints, SceneOf(s), safety_config)
           requires == v.is_safe /\ check_hitl(p.waypoints, safety_config)
           checked == [p EXCEPT !.validation_result = v,
                                !.is_safe = v.is_safe,
                                !.requires_confirmation = requires,
                                !.confirmation_reason =
                                    IF requires
                                    THEN hitl_reason(p.waypoints, safety_config)
                                    ELSE NONE]
           route == route_after_validating(p.trajectory_plan.is_valid, v.is_safe,
                        requires, p.human_confirmation_granted)
       IN  sess' = [sess EXCEPT ![s] =
              CASE route = "ERROR" ->
                     error_payload(p,
                        IF ~p.trajectory_plan.is_valid
                        THEN <<p.trajectory_plan.error, p.trajectory_plan.error_step>>
                        ELSE <<"SafetyViolation", v.summary>>)
                [] route = "AWAIT" -> [checked EXCEPT !.awaiting_confirmation = TRUE]
                [] OTHER -> [checked EXCEPT !.state = next_node("VALIDATING", FALSE)]]
    /\ UNCHANGED <<safety_config, snapshots, probe, client>>

\* the external confirmation event (hitl_confirm) for a waiting session
confirmation_event(s) ==
    /\ sess[s].state = "VALIDATING"
    /\ sess[s].awaiting_confirmation
    /\ \E confirmed \in BOOLEAN :
          IF route_after_confirmation(IF confirmed THEN "granted" ELSE "denied")
               = "EXECUTING"
          THEN sess' = [sess EXCEPT ![s].state = next_node("VALIDATING", FALSE),
                                    ![s].awaiting_confirmation = FALSE,
                                    ![s].human_confirmation_granted = TRUE]
          ELSE EnterError(s, <<"ConfirmationDenied">>)
    /\ UNCHANGED <<safety_config, snapshots, probe, client>>

\* the caller-supplied timeout of the confirmation wait elapses
confirmation_timeout(s) ==
    /\ sess[s].state = "VALIDATING"
    /\ sess[s].awaiting_confirmation
    /\ IF route_after_confirmation("timeout") = "EXECUTING"
       THEN sess' = [sess EXCEPT ![s].state = next_node("VALIDATING", FALSE),
                                 ![s].awaiting_confirmation = FALSE]
       ELSE EnterError(s, <<"ConfirmationTimeout">>)
    /\ UNCHANGED <<safety_config, snapshots, probe, client>>

executing_node(s) ==
    /\ sess[s].state = "EXECUTING"
    /\ sess' = [sess EXCEPT ![s].state = next_node("EXECUTING", FALSE),
                            ![s].execution_ready = TRUE]
    /\ UNCHANGED <<safety_config, snapshots, probe, client>>

\* return to IDLE: the PipelineState and its snapshot are destroyed
destroy_session(s) ==
    /\ sess' = [sess EXCEPT ![s] =
                  [IdleSession EXCEPT !.state = next_node(sess[s].state, FALSE)]]
    /\ snapshots' = [id \in SnapshotIds |->
                       IF sess[s].scene_ref = <<id>> THEN <<>> ELSE snapshots[id]]

confirming_node(s) ==
    /\ sess[s].state = "CONFIRMING"
    /\ destroy_session(s)
    /\ UNCHANGED <<safety_config, probe, client>>

error_node(s) ==
    /\ sess[s].state = "ERROR"
    /\ destroy_session(s)
    /\ UNCHANGED <<safety_config, probe, client>>

\* a cancellation that is only noted while the session waits for confirmation
cancel_noted_while_waiting(s) ==
    /\ IF sess[s].state = "IDLE"
       THEN UNCHANGED sess
       ELSE IF sess[s].awaiting_confirmation
       THEN sess' = [sess EXCEPT ![s].error_message = <<"Cancelled", TRUE>>]
       ELSE EnterError(s, <<"Cancelled", FALSE>>)
    /\ UNCHANGED <<safety_config, snapshots, probe, client>>

\* cancellation is accepted in every state; outside IDLE it ends the session
cancel(s) ==
    /\ IF sess[s].state = "IDLE"
       THEN UNCHANGED sess
       ELSE EnterError(s, <<"Cancelled", sess[s].awaiting_confirmation>>)
    /\ UNCHANGED <<safety_config, snapshots, probe, client>>

SessionStep(s, inputs) ==
    \/ StartCommand(s, inputs.grants)
    \/ listening_node(s)
    \/ decomposing_node(s, inputs.plans)
    \/ scene_analyzing_node(s)
    \/ planning_node(s)
    \/ validating_node(s)
    \/ confirmation_event(s)
    \/ confirmation_timeout(s)
    \/ executing_node(s)
    \/ confirming_node(s)
    \/ error_node(s)
    \/ cancel(s)

\* concurrent sessions under the default limits, each fed from a small set of
\* action plans
Next == \E s \in Sessions : SessionStep(s, FewInputs)

Spec == InitDefault /\ [][Next]_vars

\* the scheduler runs every node that needs no external event
FairSpec ==
    Spec /\ \A s \in Sessions :
               /\ WF_vars(error_node(s))

\* test_safety.py: the validator is run on the trajectory under test
test_safety ==
    /\ ~probe.checked
    /\ probe' = [probe EXCEPT
                   !.checked = TRUE,
                   !.safety_result = validate_trajectory(probe.trajectory,
                                         probe.scene, probe.config)]
    /\ UNCHANGED <<safety_config, sess, snapshots, client>>

\* test_primitives.py: the primitive of the invocation under test is looked
\* up, generates its waypoints against the scene, validates and describes them
test_primitives ==
    /\ ~probe.ran
    /\ LET a == probe.invocation
           primitive == get_primitive(a.action)
           g == IF primitive.ok
                THEN generate_waypoints(primitive.id, a.params, probe.scene)
                ELSE GenFail(primitive.error)
       IN  probe' = [probe EXCEPT
                       !.ran = TRUE,
                       !.generated = g,
                       !.validation =
                           IF g.ok
                           THEN validate(primitive.id, g.waypoints, probe.scene)
                           ELSE Invalid(g.error),
                       !.narration =
                           IF primitive.ok THEN describe(primitive.id, a.params)
                           ELSE <<>>]
    /\ UNCHANGED <<safety_config, sess, snapshots, client>>

InitTests ==
    /\ safety_config = SafetyConfig(DEFAULT_ASSUMED_DT)
    /\ sess = [s \in Sessions |-> IdleSession]
    /\ snapshots = [id \in SnapshotIds |-> <<>>]
    /\ probe \in TestCases
    /\ client = InitialClient

NextTests == test_safety \/ test_primitives

\* the unit tests: a case is drawn, then the functions under test are applied
SpecTests == InitTests /\ [][NextTests]_vars

\* the backend at rest, which the frontend does not depend on
Backend == <<safety_config, sess, snapshots, probe>>

\* the application calls wsService.connect()
ws_connect ==
    /\ Len(client.ws.sockets) < MaxSockets
    /\ client' = [client EXCEPT !.ws = connect(@)]
    /\ UNCHANGED Backend

\* the application calls wsService.disconnect()
ws_disconnect ==
    /\ client' = [client EXCEPT !.ws = disconnect(@)]
    /\ UNCHANGED Backend

\* the application calls wsService.send() with its next message
ws_send ==
    /\ client.ws.submitted < MaxMessages
    /\ client' = [client EXCEPT !.ws =
                    [send(@, @.submitted + 1) EXCEPT !.submitted = @ + 1]]
    /\ UNCHANGED Backend

\* the connection of a socket is established
ws_onopen ==
    \E i \in DOMAIN client.ws.sockets :
        /\ client.ws.sockets[i] = "CONNECTING"
        /\ client' = [client EXCEPT !.ws = handleOpen(@, i)]
        /\ UNCHANGED Backend

\* a socket fails to connect, is closed by the server, or finishes closing
ws_onclose ==
    \E i \in DOMAIN client.ws.sockets :
        /\ client.ws.sockets[i] \in {"CONNECTING", "OPEN", "CLOSING"}
        /\ client' = [client EXCEPT !.ws = handleClose(@, i)]
        /\ UNCHANGED Backend

\* a pending reconnect timer expires: the one the service refers to, or an orphan
ws_reconnect_timer ==
    /\ Len(client.ws.sockets) < MaxSockets
    /\ \/ /\ client.ws.reconnectTimer # 0
          /\ client' = [client EXCEPT !.ws =
                          reconnectCallback([@ EXCEPT !.reconnectTimer = 0])]
       \/ /\ client.ws.orphanTimers > 0
          /\ client' = [client EXCEPT !.ws =
                          reconnectCallback([@ EXCEPT !.orphanTimers = @ - 1])]
    /\ UNCHANGED Backend

\* the application calls speechService.start() or stop(); toggle() is one of
\* the two, chosen by the status
start ==
    /\ client' = [client EXCEPT !.speech =
                    [speech_start(@) EXCEPT !.requested = TRUE]]
    /\ UNCHANGED Backend

stop ==
    /\ client' = [client EXCEPT !.speech =
                    [speech_stop(@) EXCEPT !.requested = FALSE]]
    /\ UNCHANGED Backend

\* recognition.onstart: the service has begun to listen
onstart ==
    /\ client.speech.recognition = "starting"
    /\ client' = [client EXCEPT !.speech.recognition = "running",
                                !.speech.status = "listening"]
    /\ UNCHANGED Backend

\* recognition.onresult with a final transcript
handleResult ==
    /\ client.speech.recognition = "running"
    /\ client' = [client EXCEPT !.speech.status = "processing"]
    /\ UNCHANGED Backend

\* recognition.onerror: the session is over and its end event follows;
\* "no-speech" and "aborted" leave the status alone
handleError ==
    /\ client.speech.recognition \in {"starting", "running"}
    /\ \E critical \in BOOLEAN :
          client' = [client EXCEPT
                       !.speech.recognition = "stopping",
                       !.speech.status = IF critical THEN "error" ELSE @]
    /\ UNCHANGED Backend

\* recognition.onend: the session ended, asked for or not
onend ==
    /\ client.speech.recognition \in {"running", "stopping"}
    /\ client.speech.restartTimers < MaxPending
    /\ client' = [client EXCEPT !.speech =
                    handleEnd([@ EXCEPT !.recognition = "inactive"])]
    /\ UNCHANGED Backend

\* a restart timer of handleEnd expires
restart_timer ==
    /\ client.speech.restartTimers > 0
    /\ client.speech.restarts < MaxRestarts
    /\ client' = [client EXCEPT !.speech =
                    restartCallback([@ EXCEPT !.restartTimers = @ - 1])]
    /\ UNCHANGED Backend

NextSpeech ==
    \/ start
    \/ stop
    \/ onstart
    \/ handleResult
    \/ handleError
    \/ onend
    \/ restart_timer

\* the speech service under every order of calls and recognition events
SpecSpeech == InitDefault /\ [][NextSpeech]_vars

\* the Record button, shown in IDLE; recording moves the phase to RECORDING
handleStartRecording ==
    /\ client.teach.phase = "IDLE"
    /\ client' = [client EXCEPT !.teach =
                    [Handling(@) EXCEPT
                       !.errorMsg = FALSE, !.extraction = NoExtraction,
                       !.confirmedActions = {}, !.decided = Undecided,
                       !.phase = "RECORDING", !.spoken = "recording started"]]
    /\ UNCHANGED Backend

\* the Stop button, shown in RECORDING: fewer than 2 keyframes are an error
handleStopRecording ==
    /\ client.teach.phase = "RECORDING"
    /\ \E kfs \in 1..2 :
          client' = [client EXCEPT !.teach =
                       IF kfs < 2
                       THEN [Handling(@) EXCEPT !.keyframes = kfs,
                                                !.errorMsg = TRUE,
                                                !.phase = "ERROR"]
                       ELSE [Handling(@) EXCEPT
                               !.keyframes = kfs, !.phase = "SENDING",
                               !.spoken = "captured",
                               !.sent = << [type |-> "teach_extract",
                                            actions |-> <<>>] >>]]
    /\ UNCHANGED Backend

\* a teach_extract_result message arrives, in whatever phase
on_teach_extract_result ==
    /\ \E flags \in Extractions :
          client' = [client EXCEPT !.teach =
                       teach_extract_result(@, ExtractionResult(flags))]
    /\ UNCHANGED Backend

\* a teach_extract_error message arrives
on_teach_extract_error ==
    /\ client' = [client EXCEPT !.teach =
                    [Handling(@) EXCEPT !.errorMsg = TRUE, !.phase = "ERROR",
                                        !.spoken = "sorry"]]
    /\ UNCHANGED Backend

\* a status_update message with state ANALYZING arrives
on_status_update ==
    /\ client' = [client EXCEPT !.teach =
                    [Handling(@) EXCEPT !.phase = "ANALYZING"]]
    /\ UNCHANGED Backend

\* the Confirm? button of an action, shown in REVIEWING for a valid action
\* that is not confirmed
handleConfirmAction ==
    /\ client.teach.phase = "REVIEWING"
    /\ \E i \in DOMAIN client.teach.extraction.actions :
          LET a == client.teach.extraction.actions[i]
          IN  /\ a.valid_primitive
              /\ a.step \notin client.teach.confirmedActions
              /\ client' = [client EXCEPT !.teach =
                              [Handling(@) EXCEPT
                                 !.confirmedActions = @ \cup {a.step},
                                 !.decided[a.step] = "confirmed"]]
    /\ UNCHANGED Backend

\* the check mark of a confirmed action, shown in REVIEWING: unconfirm
handleRejectAction ==
    /\ client.teach.phase = "REVIEWING"
    /\ \E i \in DOMAIN client.teach.extraction.actions :
          LET a == client.teach.extraction.actions[i]
          IN  /\ a.valid_primitive
              /\ a.step \in client.teach.confirmedActions
              /\ client' = [client EXCEPT !.teach =
                              [Handling(@) EXCEPT
                                 !.confirmedActions = @ \ {a.step},
                                 !.decided[a.step] = "rejected"]]
    /\ UNCHANGED Backend

\* the Confirm All button, shown in REVIEWING
handleConfirmAll ==
    /\ client.teach.phase = "REVIEWING"
    /\ client.teach.extraction.present
    /\ LET valid == {client.teach.extraction.actions[i].step : i \in
                       {j \in DOMAIN client.teach.extraction.actions :
                           client.teach.extraction.actions[j].valid_primitive}}
       IN  client' = [client EXCEPT !.teach =
                        [Handling(@) EXCEPT
                           !.confirmedActions = valid,
                           !.decided = [s \in 1..MaxActions |->
                                          IF s \in valid THEN "confirmed"
                                          ELSE @[s]]]]
    /\ UNCHANGED Backend

\* the Execute button, shown in REVIEWING
execute ==
    /\ client.teach.phase = "REVIEWING"
    /\ client' = [client EXCEPT !.teach = handleExecute(@)]
    /\ UNCHANGED Backend

\* the Reset button, shown in ERROR, DONE and EXECUTING
handleReset ==
    /\ client.teach.phase \in {"ERROR", "DONE", "EXECUTING"}
    /\ client' = [client EXCEPT !.teach =
                    [Handling(@) EXCEPT
                       !.phase = "IDLE", !.extraction = NoExtraction,
                       !.confirmedActions = {}, !.decided = Undecided,
                       !.errorMsg = FALSE, !.keyframes = 0]]
    /\ UNCHANGED Backend

NextTeach ==
    \/ handleStartRecording
    \/ handleStopRecording
    \/ on_teach_extract_result
    \/ on_teach_extract_error
    \/ on_status_update
    \/ handleConfirmAction
    \/ handleRejectAction
    \/ handleConfirmAll
    \/ execute
    \/ handleReset

\* the Teach panel under every order of clicks and messages
SpecTeach == InitDefault /\ [][NextTeach]_vars

openSelection ==
    /\ client' = [client EXCEPT !.puzzle.phase = "SELECTING"]
    /\ UNCHANGED Backend

\* getPuzzle(id) finds nothing for an id that is not in puzzleConfig
selectPuzzle ==
    /\ \E id \in 1..(NumPuzzles + 1) :
          /\ id \in PuzzleIds
          /\ client' = [client EXCEPT !.puzzle =
                          [@ EXCEPT !.activePuzzle = id, !.actionCount = 0,
                                    !.lastScore = "null", !.phase = "READY"]]
    /\ UNCHANGED Backend

\* intervals still running when the handles are overwritten are never cleared
startPuzzle ==
    /\ client.puzzle.activePuzzle # 0
    /\ client.puzzle.phase = "READY"
    /\ client.puzzle.timers => client.puzzle.orphans < MaxOrphans
    /\ client' = [client EXCEPT !.puzzle =
                    [@ EXCEPT !.actionCount = 0,
                              !.orphans = IF client.puzzle.timers
                                          THEN @ + 1 ELSE @,
                              !.timers = TRUE,
                              !.phase = "PLAYING"]]
    /\ UNCHANGED Backend

manualComplete ==
    /\ client.puzzle.phase = "PLAYING"
    /\ client' = [client EXCEPT !.puzzle = finishPuzzle(@, TRUE)]
    /\ UNCHANGED Backend

giveUp ==
    /\ client.puzzle.phase \in {"PLAYING", "READY"}
    /\ client' = [client EXCEPT !.puzzle = finishPuzzle(stopTimers(@), FALSE)]
    /\ UNCHANGED Backend

backToSelection ==
    /\ client' = [client EXCEPT !.puzzle =
                    [stopTimers(@) EXCEPT !.activePuzzle = 0,
                                          !.lastScore = "null",
                                          !.phase = "SELECTING"]]
    /\ UNCHANGED Backend

close ==
    /\ client' = [client EXCEPT !.puzzle =
                    [stopTimers(@) EXCEPT !.activePuzzle = 0,
                                          !.lastScore = "null",
                                          !.phase = "IDLE"]]
    /\ UNCHANGED Backend

\* guide mode, teach mode or the command-mode subscription count an action
incrementActions ==
    /\ client.puzzle.phase = "PLAYING"
    /\ client.puzzle.actionCount < MaxCounted
    /\ client' = [client EXCEPT !.puzzle.actionCount = @ + 1]
    /\ UNCHANGED Backend

\* a check interval fires and the success condition holds of the scene
checkSuccess ==
    /\ client.puzzle.timers \/ client.puzzle.orphans > 0
    /\ client.puzzle.phase = "PLAYING"
    /\ client.puzzle.activePuzzle # 0
    /\ client' = [client EXCEPT !.puzzle = finishPuzzle(@, TRUE)]
    /\ UNCHANGED Backend

NextPuzzle ==
    \/ openSelection
    \/ selectPuzzle
    \/ startPuzzle
    \/ manualComplete
    \/ giveUp
    \/ backToSelection
    \/ close
    \/ incrementActions
    \/ checkSuccess

\* the puzzle engine under every order of calls
SpecPuzzle == InitDefault /\ [][NextPuzzle]_vars

(***************************************************************************)
(* scoreCalculator: the leaderboard's operations                           *)
(***************************************************************************)
\* addToLeaderboard(entry), as finishPuzzle calls it for a solved puzzle
add_entry ==
    /\ Cardinality(client.scores.added) < MaxAdds
    /\ \E score \in Scores :
          client' = [client EXCEPT !.scores = addToLeaderboard(@, score)]
    /\ UNCHANGED Backend

\* clearLeaderboard(), the Leaderboard component's Clear button
clearLeaderboard ==
    /\ client.scores.leaderboard # <<>>
    /\ client' = [client EXCEPT !.scores = InitialLeaderboard]
    /\ UNCHANGED Backend

NextScores ==
    \/ add_entry
    \/ clearLeaderboard

\* the leaderboard under every sequence of entries and clears
SpecScores == InitDefault /\ [][NextScores]_vars

(***************************************************************************)
(* commandMode: its calls, the messages it handles and its timers          *)
(***************************************************************************)
\* sendCommand(transcript), from a final transcript or the text box: refused
\* with a spoken notice while executing is set
sendCommand ==
    /\ client.command.calls < MaxCommands
    /\ client' = [client EXCEPT !.command =
          IF @.executing
          THEN [@ EXCEPT !.calls = @ + 1]
          ELSE [@ EXCEPT !.calls = @ + 1, !.state = "THINKING",
                         !.awaiting = @ + 1]]
    /\ UNCHANGED Backend

setListening ==
    /\ ~client.command.executing
    /\ client' = [client EXCEPT !.command.state = "LISTENING"]
    /\ UNCHANGED Backend

reset ==
    /\ client' = [client EXCEPT !.command.executing = FALSE,
                                !.command.state = "IDLE"]
    /\ UNCHANGED Backend

\* a plan_result arrives in answer to a voice_command
on_plan_result ==
    /\ client.command.awaiting > 0
    /\ \E is_valid \in BOOLEAN, n \in 0..MaxWaypoints :
          client' = [client EXCEPT !.command = handlePlanResult(@, is_valid, n)]
    /\ UNCHANGED Backend

\* a plan_error arrives in answer to a voice_command
on_plan_error ==
    /\ client.command.awaiting > 0
    /\ client' = [client EXCEPT !.command = handlePlanError(@)]
    /\ UNCHANGED Backend

\* a status_update arrives while the backend works on a command
on_pipeline_status ==
    /\ client.command.awaiting > 0
    /\ \E state \in StatusStates :
          client' = [client EXCEPT !.command.state = state]
    /\ UNCHANGED Backend

\* the sleep after a waypoint ends: the loop of executeWaypoints goes on
\* with the next waypoint, or returns and handlePlanResult finishes
executeWaypoints ==
    /\ \E x \in client.command.executions :
          client' = [client EXCEPT !.command =
             IF x.left > 0 THEN driveWaypoint(@, x) ELSE finishExecution(@, x)]
    /\ UNCHANGED Backend

\* a return-to-IDLE timer expires
idle_timer ==
    /\ client.command.idleTimers > 0
    /\ client' = [client EXCEPT !.command.idleTimers = @ - 1,
                                !.command.state = "IDLE"]
    /\ UNCHANGED Backend

NextCommand ==
    \/ sendCommand
    \/ setListening
    \/ reset
    \/ on_plan_result
    \/ on_plan_error
    \/ on_pipeline_status
    \/ executeWaypoints
    \/ idle_timer

\* CommandMode under every order of calls, messages and timers
SpecCommand == InitDefault /\ [][NextCommand]_vars

(***************************************************************************)
(* armController: its calls and its frames                                 *)
(***************************************************************************)
arm_moveToPosition ==
    /\ client.arm.calls < MaxMoves
    /\ \E pos \in Positions, result \in IKResults, speed \in Speeds :
          client' = [client EXCEPT !.arm =
             [moveToPosition(@, pos, result, speed) EXCEPT !.outside =
                 IF isWithinWorkspace(pos) THEN @
                 ELSE @ \cup {client.arm.calls + 1}]]
    /\ UNCHANGED Backend

arm_setJointAngles ==
    /\ client.arm.calls < MaxMoves
    /\ \E angles \in Targets, speed \in Speeds :
          client' = [client EXCEPT !.arm = setJointAngles(@, angles, speed)]
    /\ UNCHANGED Backend

openGripper ==
    /\ client' = [client EXCEPT !.arm.gripperState = "opening"]
    /\ UNCHANGED Backend

closeGripper ==
    /\ client' = [client EXCEPT !.arm.gripperState = "closing"]
    /\ UNCHANGED Backend

\* useFrame calls update(dt)
arm_update ==
    /\ \E dt \in FrameTimes : client' = [client EXCEPT !.arm = update(@, dt)]
    /\ UNCHANGED Backend

NextArm ==
    \/ arm_moveToPosition
    \/ arm_setJointAngles
    \/ openGripper
    \/ closeGripper
    \/ arm_update

\* the arm controller under every order of calls and frames
SpecArm == InitDefault /\ [][NextArm]_vars

(***************************************************************************)
(* ttsService: its calls and the events of the synthesizer                 *)
(***************************************************************************)
speak ==
    /\ client.tts.calls < MaxTexts
    /\ \E priority \in BOOLEAN :
          client' = [client EXCEPT !.tts =
             [tts_speak(@, @.calls + 1, priority) EXCEPT !.calls = @ + 1]]
    /\ UNCHANGED Backend

cancel_speech ==
    /\ client' = [client EXCEPT !.tts = tts_cancel(@)]
    /\ UNCHANGED Backend

\* the synthesizer begins its next utterance: utterance.onstart
utterance_onstart ==
    /\ client.tts.current = 0
    /\ client.tts.pending # <<>>
    /\ client' = [client EXCEPT !.tts.current = Head(client.tts.pending),
                                !.tts.pending = Tail(@),
                                !.tts.speaking = TRUE,
                                !.tts.status = "speaking"]
    /\ UNCHANGED Backend

\* the utterance being spoken ends or fails: utterance.onend or onerror
utterance_onend ==
    /\ client.tts.current # 0
    /\ client' = [client EXCEPT !.tts = processQueue([@ EXCEPT !.current = 0])]
    /\ UNCHANGED Backend

\* the error event of a cancelled utterance is delivered: utterance.onerror
cancelled_onerror ==
    /\ client.tts.cancelled > 0
    /\ client' = [client EXCEPT !.tts =
                     processQueue([@ EXCEPT !.cancelled = @ - 1])]
    /\ UNCHANGED Backend

NextTTS ==
    \/ speak
    \/ cancel_speech
    \/ utterance_onstart
    \/ utterance_onend
    \/ cancelled_onerror

\* the text-to-speech service under every order of calls and events
SpecTTS == InitDefault /\ [][NextTTS]_vars

NextSocket ==
    \/ ws_connect
    \/ ws_disconnect
    \/ ws_send
    \/ ws_onopen
    \/ ws_onclose
    \/ ws_reconnect_timer

\* the WebSocket service under every order of calls and socket events
SpecSocket == InitDefault /\ [][NextSocket]_vars

\* one session fed every action plan up to MaxPlanLen, under either configuration
NextSolo == SessionStep(1, AllInputs)

SpecSolo == Init /\ [][NextSolo]_vars

(***************************************************************************)
(* Properties                                                              *)
(***************************************************************************)
State(s) == sess[s].state

Moved(s) == sess'[s].state # sess[s].state

DocumentedEdges ==
    { <<"IDLE", "LISTENING">>, <<"LISTENING", "DECOMPOSING">>,
      <<"DECOMPOSING", "SCENE_ANALYZING">>, <<"SCENE_ANALYZING", "PLANNING">>,
      <<"PLANNING", "VALIDATING">>, <<"VALIDATING", "EXECUTING">>,
      <<"VALIDATING", "ERROR">>, <<"EXECUTING", "CONFIRMING">>,
      <<"CONFIRMING", "IDLE">>, <<"ERROR", "IDLE">> }

\* the edges on which a node reports its own failure
FailureEdges == { <<"LISTENING", "ERROR">>, <<"DECOMPOSING", "ERROR">> }

Cancelled(p) == Len(p.error_message) > 0 /\ p.error_message[1] = "Cancelled"

ErrorReturnsToIdle ==
    /\ \A s \in Sessions : (State(s) = "ERROR") ~> (State(s) = "IDLE")
    /\ [](\A s \in Sessions :
            /\ (State(s) = "ERROR" => ENABLED error_node(s))
            /\ (State(s) = "IDLE" => ENABLED StartCommand(s, {FALSE})))

\* a session is in ERROR after a failure of its own
InError ==
    \E s \in Sessions :
        /\ State(s) = "ERROR"
        /\ sess[s].error_message = <<"DecompositionUnavailable">>

\* the scene after the effects of the first n steps are folded into it
RECURSIVE FoldSteps(_, _, _)
FoldSteps(steps, n, scene) ==
    IF n = 0 THEN scene
    ELSE LET st == steps[n]
         IN  update_scene_after_action(FoldSteps(steps, n - 1, scene),
                                       st.action, st.params, st.waypoints)

\* the error with which an action fails against a scene, NONE if it succeeds
StepError(a, scene) ==
    IF a.action \notin PRIMITIVE_REGISTRY THEN "UnknownPrimitiveError"
    ELSE LET g == generate_waypoints(a.action, a.params, scene)
         IN  IF ~g.ok THEN g.error
             ELSE validate(a.action, g.waypoints, scene).error

\* C5: the plan holds one step for each action before the first that fails, in
\* the order of the actions, each of them successful against the scene left by
\* the steps before it; an action fails at error_step, the plan is invalid and
\* carries that action's error, and no later action has a step or a waypoint
\* in the plan.
FailFast ==
    \A s \in Sessions : State(s) = "VALIDATING" =>
        LET plan == sess[s].trajectory_plan
            actions == sess[s].action_plan
            k == plan.error_step
            before(i) == FoldSteps(plan.steps, i - 1, sess[s].scene_data[1])
        IN  /\ plan.all_waypoints = StepWaypoints(plan.steps)
            /\ Len(plan.steps) <= Len(actions)
            /\ \A i \in DOMAIN plan.steps :
                  /\ plan.steps[i].action = actions[i].action
                  /\ plan.steps[i].params = actions[i].params
                  /\ StepError(actions[i], before(i)) = NONE
                  /\ plan.steps[i].waypoints =
                       generate_waypoints(actions[i].action, actions[i].params,
                                          before(i)).waypoints
            /\ (k = 0 => Len(plan.steps) = Len(actions))
            /\ (k # 0 => (/\ k \in DOMAIN actions
                          /\ Len(plan.steps) = k - 1
                          /\ ~plan.is_valid
                          /\ plan.error # NONE
                          /\ plan.error = StepError(actions[k], before(k))))
            /\ (plan.is_valid => k = 0)

\* a 3-action plan whose action 2 names a missing object and whose action 3 is
\* valid by itself was planned
FailedAtSecondOfThree ==
    \E s \in Sessions :
        /\ State(s) = "VALIDATING"
        /\ Len(sess[s].action_plan) = 3
        /\ sess[s].action_plan[3] = Wait
        /\ sess[s].trajectory_plan.error_step = 2
        /\ sess[s].trajectory_plan.error = "UnknownTargetError"
        /\ Len(sess[s].trajectory_plan.all_waypoints) = 2

\* C6: the scene snapshot of a session changes only in the planning step of
\* that session, and then to the scene it had with the effects of the plan's
\* steps (the validated actions) folded into it, in order; nothing else, the
\* Safety Validator included, changes it.
SceneChangedOnlyByPlanner ==
    [][\A id \in SnapshotIds :
         (~IsFree(snapshots, id) /\ ~IsFree(snapshots', id)
          /\ snapshots'[id] # snapshots[id])
         => \E s \in Sessions :
               /\ sess[s].scene_ref = <<id>>
               /\ State(s) = "PLANNING"
               /\ sess'[s].state = "VALIDATING"
               /\ snapshots'[id][1] =
                    FoldSteps(sess'[s].trajectory_plan.steps,
                              Len(sess'[s].trajectory_plan.steps),
                              snapshots[id][1])]_vars

\* the planner folded a GRASP into the scene and stopped at a later action
\* that failed
SceneFoldedBeforeFailure ==
    \E s \in Sessions :
        /\ State(s) = "VALIDATING"
        /\ SceneOf(s).held_object_id = "red_cube"
        /\ ~SceneOf(s).gripper_open
        /\ sess[s].trajectory_plan.error = "PreconditionError"

\* C7: after a safe validation requires_confirmation is true exactly when the
\* trajectory has more than 5 waypoints or some adjacent pair of waypoints is
\* covered at more than 4/5 of max_linear_velocity.
ConfirmationRule ==
    \A s \in Sessions : sess[s].validation_result.is_safe =>
        LET wps == sess[s].waypoints
            limit == safety_config.max_linear_velocity * safety_config.assumed_dt
        IN  sess[s].requires_confirmation <=>
              \/ Len(wps) > 5
              \/ \E j \in 2..Len(wps) :
                    2500 * DistSq(wps[j], wps[j-1]) > 16 * limit * limit

\* the velocity in cm/s of the fastest step is v (exact when it is an integer)
FastestStepIs(wps, v) ==
    /\ \E j \in 2..Len(wps) :
          100 * DistSq(wps[j], wps[j-1]) =
            (v * safety_config.assumed_dt) * (v * safety_config.assumed_dt)
    /\ \A j \in 2..Len(wps) :
          100 * DistSq(wps[j], wps[j-1]) <=
            (v * safety_config.assumed_dt) * (v * safety_config.assumed_dt)

\* 5 waypoints, the fastest step at exactly 2.0 m/s: no confirmation required
FiveSlowWaypointsPass ==
    \E s \in Sessions :
        /\ State(s) = "EXECUTING"
        /\ Len(sess[s].waypoints) = 5
        /\ FastestStepIs(sess[s].waypoints, 200)
        /\ ~sess[s].requires_confirmation

\* 5 waypoints with one step at 2.1 m/s: confirmation required
FiveWaypointsOneFast ==
    \E s \in Sessions :
        /\ sess[s].validation_result.is_safe
        /\ Len(sess[s].waypoints) = 5
        /\ FastestStepIs(sess[s].waypoints, 210)
        /\ sess[s].requires_confirmation

\* 6 slow waypoints: confirmation required
SixSlowWaypoints ==
    \E s \in Sessions :
        /\ sess[s].validation_result.is_safe
        /\ Len(sess[s].waypoints) = 6
        /\ FastestStepIs(sess[s].waypoints, 200)
        /\ sess[s].requires_confirmation

\* what belongs to a session: its payload and the scene snapshot it refers to
View(s) ==
    <<sess[s], IF sess[s].scene_ref = <<>> THEN <<>>
               ELSE snapshots[sess[s].scene_ref[1]]>>

\* C8: a step changes the pipeline state, payload (plan, confirmation flags)
\* and scene snapshot of at most one session: what belongs to the other
\* sessions is left as it was, and no two sessions refer to the same snapshot.
SessionsIndependent ==
    /\ [][\A s, t \in Sessions :
            s # t => (View(s)' = View(s) \/ View(t)' = View(t))]_vars
    /\ [](\A s, t \in Sessions :
            (s # t /\ sess[s].scene_ref # <<>>)
              => sess[s].scene_ref # sess[t].scene_ref)

\* one session has planned and changed its scene while another is under way
\* with the scene it started from
TwoSessionsUnderWay ==
    \E s, t \in Sessions :
        /\ s # t
        /\ State(s) = "VALIDATING"
        /\ SceneOf(s).held_object_id = NONE
        /\ SceneOf(s) # sess[s].scene_data[1]
        /\ State(t) = "PLANNING"
        /\ SceneOf(t) = sess[t].scene_data[1]

\* C9: cancellation is accepted in every pipeline state; a session that is
\* cancelled outside IDLE is in ERROR at once, no longer waiting, and goes
\* nowhere from there but to IDLE; no other session refers to its snapshot.
CancellationReleases ==
    /\ [](\A s \in Sessions : ENABLED cancel(s))
    /\ [](\A s \in Sessions : Cancelled(sess[s]) =>
            /\ State(s) = "ERROR"
            /\ ~sess[s].awaiting_confirmation
            /\ \A t \in Sessions : t # s => sess[t].scene_ref # sess[s].scene_ref)
    /\ [][\A s \in Sessions :
            /\ ((cancel(s) /\ State(s) # "IDLE")
                 => (Cancelled(sess'[s])
                     /\ sess'[s].error_message[2] = sess[s].awaiting_confirmation))
            /\ ((Cancelled(sess[s]) /\ Moved(s)) => sess'[s].state = "IDLE")]_vars

\* a session was cancelled while it waited for the confirmation
CancelledWhileWaiting ==
    \E s \in Sessions :
        /\ State(s) = "ERROR"
        /\ sess[s].error_message = <<"Cancelled", TRUE>>

\* C10: a session is in SCENE_ANALYZING only with the action plan DECOMPOSING
\* accepted, in PLANNING only with the scene description attached as well, and
\* in VALIDATING only with the trajectory plan made; each of these states is
\* entered from the one before it, whose result is not there before.
StagesInOrder ==
    /\ [](\A s \in Sessions :
            LET p == sess[s]
                decomposed == Len(p.action_plan) > 0
                analyzed == p.scene_description # {}
                planned == p.trajectory_plan # NoPlan
                validated == p.validation_result # NoValidation
            IN  /\ (p.state = "DECOMPOSING"
                      => (~decomposed /\ ~analyzed /\ ~planned /\ ~validated))
                /\ (p.state = "SCENE_ANALYZING"
                      => (decomposed /\ ~analyzed /\ ~planned /\ ~validated))
                /\ (p.state = "PLANNING"
                      => (decomposed /\ analyzed /\ ~planned /\ ~validated))
                /\ (p.state = "VALIDATING"
                      => (decomposed /\ analyzed /\ planned
                          /\ (validated <=> p.awaiting_confirmation)))
                /\ (p.state = "EXECUTING"
                      => (decomposed /\ analyzed /\ planned /\ validated)))
    /\ [][\A s \in Sessions : Moved(s) =>
            /\ (sess'[s].state = "SCENE_ANALYZING" => State(s) = "DECOMPOSING")
            /\ (sess'[s].state = "PLANNING" => State(s) = "SCENE_ANALYZING")
            /\ (sess'[s].state = "VALIDATING" => State(s) = "PLANNING")]_vars

\* a session is in VALIDATING with the results of the three stages before it
ReachedValidating ==
    \E s \in Sessions :
        /\ State(s) = "VALIDATING"
        /\ sess[s].awaiting_confirmation
        /\ Len(sess[s].action_plan) = 2
        /\ sess[s].trajectory_plan.is_valid

\* C11: a step into ERROR records a non-empty error message and leaves no
\* action plan, trajectory plan, waypoints, narration, validation result or
\* readiness flag in the payload; a session in ERROR holds none of them, and
\* the step from ERROR to IDLE leaves the payload of a session that was
\* never started.
ErrorDiscardsPlan ==
    /\ [](\A s \in Sessions : State(s) = "ERROR" =>
            /\ Len(sess[s].error_message) > 0
            /\ sess[s].action_plan = <<>>
            /\ sess[s].trajectory_plan = NoPlan
            /\ sess[s].waypoints = <<>>
            /\ sess[s].narration = <<>>
            /\ sess[s].validation_result = NoValidation
            /\ ~sess[s].is_safe
            /\ ~sess[s].execution_ready)
    /\ [][\A s \in Sessions :
            (State(s) = "ERROR" /\ Moved(s)) => sess'[s] = IdleSession]_vars

\* a session is in ERROR because the trajectory it had planned was unsafe
ErrorAfterUnsafeTrajectory ==
    \E s \in Sessions :
        /\ State(s) = "ERROR"
        /\ sess[s].error_message[1] = "SafetyViolation"

\* held_object_id, the objects' is_held flags and gripper_open agree
HeldConsistent(scene) ==
    /\ scene.held_object_id # NONE =>
          /\ scene.held_object_id \in DOMAIN scene.objects
          /\ scene.objects[scene.held_object_id].is_held
          /\ ~scene.gripper_open
    /\ \A id \in DOMAIN scene.objects :
          scene.objects[id].is_held => scene.held_object_id = id

\* C12: in every scene a session owns, before planning and after the planner
\* folded any number of validated actions into it, held_object_id is unset or
\* names an object of the scene marked is_held, no other object is marked
\* is_held, and the gripper is closed while an object is held.
HeldObjectConsistent ==
    \A id \in SnapshotIds :
        ~IsFree(snapshots, id) => HeldConsistent(snapshots[id][1])

\* three actions were folded and the object grasped by the first is still held
HoldingAfterThreeSteps ==
    \E s \in Sessions :
        /\ State(s) = "VALIDATING"
        /\ Len(sess[s].trajectory_plan.steps) = 3
        /\ sess[s].trajectory_plan.steps[1].action = "GRASP"
        /\ SceneOf(s).held_object_id = "red_cube"

\* the waypoint at which the gripper lets go: the one that opens it
IsReleaseWaypoint(wps, j) ==
    /\ j \in DOMAIN wps
    /\ wps[j].gripper_open
    /\ j > 1
    /\ ~wps[j-1].gripper_open

\* C13: for every step of a plan, with `b` the scene before the step and `a`
\* the scene after it: GRASP leaves held_object_id = target, the target marked
\* held and the gripper closed; RELEASE, PLACE and STACK leave held_object_id
\* unset and the gripper open; PLACE and STACK leave the object that was held
\* at the waypoint that releases it; every step leaves end_effector at its
\* last waypoint and every other object where it was; the step's waypoints are
\* those generated against `b`, and the session's scene is the fold of all steps.
FoldEffects ==
    \A s \in Sessions : State(s) = "VALIDATING" =>
        LET steps == sess[s].trajectory_plan.steps
            initial == sess[s].scene_data[1]
        IN  /\ SceneOf(s) = FoldSteps(steps, Len(steps), initial)
            /\ \A i \in DOMAIN steps :
                  LET st == steps[i]
                      b == FoldSteps(steps, i - 1, initial)
                      a == FoldSteps(steps, i, initial)
                      wps == st.waypoints
                  IN  /\ a.end_effector = WpPos(wps[Len(wps)])
                      /\ wps = generate_waypoints(st.action, st.params, b).waypoints
                      /\ (st.action = "GRASP" =>
                            /\ a.held_object_id = st.params.target
                            /\ a.objects[st.params.target].is_held
                            /\ ~a.gripper_open)
                      /\ (st.action \in {"RELEASE", "PLACE", "STACK"} =>
                            /\ a.held_object_id = NONE
                            /\ a.gripper_open
                            /\ \A id \in DOMAIN a.objects : ~a.objects[id].is_held)
                      /\ (st.action \in {"PLACE", "STACK"} =>
                            \E j \in DOMAIN wps :
                                /\ IsReleaseWaypoint(wps, j)
                                /\ a.objects[b.held_object_id].position =
                                     WpPos(wps[j]))
                      /\ (st.action \notin {"GRASP", "RELEASE", "PLACE", "STACK"} =>
                            /\ a.objects = b.objects
                            /\ a.held_object_id = b.held_object_id
                            /\ a.gripper_open = b.gripper_open)
                      /\ \A id \in DOMAIN b.objects :
                            (id # b.held_object_id \/ st.action \notin {"PLACE", "STACK"})
                            => a.objects[id].position = b.objects[id].position

\* the red cube was stacked on the blue box and the action after the STACK
\* was planned from where the STACK left the arm
StackedThenPlannedFromThere ==
    \E s \in Sessions :
        /\ State(s) = "VALIDATING"
        /\ Len(sess[s].trajectory_plan.steps) = 3
        /\ sess[s].trajectory_plan.steps[2].action = "STACK"
        /\ sess[s].trajectory_plan.steps[3].action = "WAIT"
        /\ WpPos(sess[s].trajectory_plan.steps[3].waypoints[1]) = <<-30, 100, 0>>
        /\ SceneOf(s).objects["red_cube"].position = <<-30, 75, 0>>
        /\ SceneOf(s).end_effector = <<-30, 100, 0>>

\* the number of waypoints in the steps before step i
RECURSIVE WaypointsBefore(_, _)
WaypointsBefore(steps, i) ==
    IF i <= 1 THEN 0
    ELSE WaypointsBefore(steps, i - 1) + Len(steps[i - 1].waypoints)

PreconditionUnmet(action, scene) ==
    \/ action = "GRASP" /\ scene.held_object_id # NONE
    \/ action \in {"PLACE", "POUR", "STACK"} /\ scene.held_object_id = NONE

\* C15: no step of a plan is a GRASP planned while an object was held or a
\* PLACE, POUR or STACK planned while none was; when the action after the
\* plan's last step is one of these, with parameters its primitive accepts,
\* the plan is invalid with a PreconditionError at that action.
PreconditionsEnforced ==
    \A s \in Sessions : State(s) = "VALIDATING" =>
        LET plan == sess[s].trajectory_plan
            actions == sess[s].action_plan
            before(i) == FoldSteps(plan.steps, i - 1, sess[s].scene_data[1])
            k == Len(plan.steps) + 1
        IN  /\ \A i \in DOMAIN plan.steps :
                  ~PreconditionUnmet(plan.steps[i].action, before(i))
            /\ (/\ k \in DOMAIN actions
                /\ generate_waypoints(actions[k].action, actions[k].params,
                                      before(k)).ok
                /\ PreconditionUnmet(actions[k].action, before(k)))
               => (/\ ~plan.is_valid
                   /\ plan.error = "PreconditionError"
                   /\ plan.error_step = k)

\* a plan was cut short at `action`, refused for its precondition as action k
RefusedAt(action, k) ==
    \E s \in Sessions :
        /\ State(s) = "VALIDATING"
        /\ sess[s].trajectory_plan.error_step = k
        /\ sess[s].trajectory_plan.error = "PreconditionError"
        /\ sess[s].action_plan[k].action = action
        /\ ~sess[s].trajectory_plan.is_valid

\* a second GRASP was refused while the object of the first was held
SecondGraspRefused == RefusedAt("GRASP", 2)

\* C16: a RELEASE is never the action at which a plan fails; a RELEASE planned
\* while nothing is held is a step of the plan that carries a warning (and one
\* planned while an object is held carries none); the action after a RELEASE
\* is either a step of the plan too or the action at which the plan fails.
ReleaseOnlyWarns ==
    \A s \in Sessions : State(s) = "VALIDATING" =>
        LET plan == sess[s].trajectory_plan
            actions == sess[s].action_plan
            before(i) == FoldSteps(plan.steps, i - 1, sess[s].scene_data[1])
        IN  /\ (plan.error_step # 0 => actions[plan.error_step].action # "RELEASE")
            /\ \A i \in DOMAIN plan.steps :
                  plan.steps[i].action = "RELEASE" =>
                     /\ (plan.steps[i].warnings # {}
                           <=> before(i).held_object_id = NONE)
                     /\ (i < Len(actions) =>
                           (Len(plan.steps) > i \/ plan.error_step = i + 1))
            /\ ((\A i \in DOMAIN actions : actions[i].action = "RELEASE")
                  => plan.is_valid)

\* a valid plan whose first step is a RELEASE with nothing held, carrying a
\* warning, and whose later actions were planned as well
ReleaseWarnedAndPlanWentOn ==
    \E s \in Sessions :
        /\ State(s) = "VALIDATING"
        /\ sess[s].trajectory_plan.is_valid
        /\ Len(sess[s].trajectory_plan.steps) = 3
        /\ sess[s].trajectory_plan.steps[1].action = "RELEASE"
        /\ sess[s].trajectory_plan.steps[1].warnings # {}
        /\ sess[s].trajectory_plan.steps[3].action = "GRASP"

HasActionsAndParams(plan) ==
    \A i \in DOMAIN plan : "action" \in DOMAIN plan[i] /\ "params" \in DOMAIN plan[i]

\* C18: a session with an empty transcript leaves LISTENING for ERROR only; a
\* session leaves DECOMPOSING for SCENE_ANALYZING only with a non-empty action
\* plan whose entries all have an action and parameters, and for ERROR
\* otherwise; a session in a later stage has a non-empty transcript and such
\* a plan, and a session that failed in LISTENING or DECOMPOSING has no
\* trajectory plan and no validation result.
EmptyInputsFail ==
    /\ [][\A s \in Sessions : Moved(s) =>
            /\ (State(s) = "LISTENING" /\ sess[s].transcript = ""
                  => sess'[s].state = "ERROR")
            /\ (State(s) = "LISTENING" => sess'[s].state \in {"DECOMPOSING", "ERROR"})
            /\ (State(s) = "DECOMPOSING" =>
                  \/ sess'[s].state = "ERROR"
                  \/ /\ sess'[s].state = "SCENE_ANALYZING"
                     /\ Len(sess'[s].action_plan) > 0
                     /\ HasActionsAndParams(sess'[s].action_plan))
            /\ (State(s) \in {"LISTENING", "DECOMPOSING"} =>
                  /\ sess'[s].trajectory_plan = NoPlan
                  /\ sess'[s].validation_result = NoValidation)]_vars
    /\ [](\A s \in Sessions :
            State(s) \in {"SCENE_ANALYZING", "PLANNING", "VALIDATING",
                          "EXECUTING", "CONFIRMING"}
            => (/\ sess[s].transcript # ""
                /\ Len(sess[s].action_plan) > 0
                /\ HasActionsAndParams(sess[s].action_plan)))

\* a session is in ERROR because the action plan it was supplied was empty or
\* malformed
ErrorFromDecomposing ==
    \E s \in Sessions :
        /\ State(s) = "ERROR"
        /\ sess[s].error_message = <<"InvalidActionPlan">>

\* the session failed because no decomposition provider could answer
Unanswered(s) ==
    State(s) = "ERROR" /\ sess[s].error_message = <<"DecompositionUnavailable">>

\* C19: a step of a session out of DECOMPOSING, the failure of every provider
\* included, leads to SCENE_ANALYZING or ERROR, changes no snapshot and no
\* other session; a session that failed because no provider answered is in
\* IDLE later and can then accept a new command, and while it is in ERROR
\* every other session can still take the step it could take.
UnavailableIsRecoverable ==
    /\ [][\A s \in Sessions : (State(s) = "DECOMPOSING" /\ Moved(s)) =>
            /\ sess'[s].state \in {"SCENE_ANALYZING", "ERROR"}
            /\ snapshots' = snapshots
            /\ \A t \in Sessions \ {s} : sess'[t] = sess[t]]_vars
    /\ \A s \in Sessions : Unanswered(s) ~> (State(s) = "IDLE")
    /\ [](\A s \in Sessions :
            /\ (State(s) = "IDLE" => ENABLED StartCommand(s, {FALSE}))
            /\ (Unanswered(s) =>
                  \A t \in Sessions \ {s} :
                     /\ (State(t) = "SCENE_ANALYZING"
                           => ENABLED scene_analyzing_node(t))
                     /\ (State(t) = "VALIDATING" /\ ~sess[t].awaiting_confirmation
                           => ENABLED validating_node(t))
                     /\ (State(t) = "EXECUTING" => ENABLED executing_node(t))))

\* one session failed for want of a provider while another holds a scene its
\* planner has folded a GRASP and a STACK into
UnansweredBesidePlannedSession ==
    \E s, t \in Sessions :
        /\ Unanswered(s)
        /\ State(t) = "VALIDATING"
        /\ Len(sess[t].trajectory_plan.steps) = 2
        /\ SceneOf(t).objects["red_cube"].position = <<-30, 75, 0>>

\* one of the five error-severity checks fails on the waypoints
ErrorCheckFails(wps, config) ==
    \/ \E i \in DOMAIN wps :
          \/ wps[i].x < config.x_min \/ wps[i].x > config.x_max
          \/ wps[i].y < config.y_min \/ wps[i].y > config.y_max
          \/ wps[i].z < config.z_min \/ wps[i].z > config.z_max
          \/ wps[i].y < config.table_height - config.table_collision_margin
    \/ \E j \in 2..Len(wps) :
          LET step == config.max_linear_velocity * config.assumed_dt
              turn == config.max_angular_velocity * config.assumed_dt
          IN  \/ 100 * DistSq(wps[j], wps[j-1]) > step * step
              \/ 100 * AngleSq(wps[j], wps[j-1]) > turn * turn
              \/ DistSq(wps[j], wps[j-1]) >
                   config.max_waypoint_distance * config.max_waypoint_distance

\* the result says unsafe exactly when an error-severity check fails on the
\* waypoints; its violations are the error findings, its warnings the
\* clearance findings
SafeUnlessError(v, wps, config) ==
    /\ v.is_safe <=> ~ErrorCheckFails(wps, config)
    /\ v.is_safe <=> v.violations = {}
    /\ \A f \in v.violations :
          f.severity = "error" /\ f.constraint # "min_obstacle_clearance"
    /\ \A f \in v.warnings :
          f.severity = "warning" /\ f.constraint = "min_obstacle_clearance"

\* C20: every safety result a session holds - the planner's over a plan whose
\* actions all succeeded, the validating node's - says unsafe exactly when an
\* error-severity check fails, whatever the clearance warnings; and a session
\* leaves VALIDATING for ERROR over safety only when an error-severity check
\* fails on its waypoints.
OnlyErrorsMakeUnsafe ==
    /\ [](\A s \in Sessions :
            /\ (State(s) = "VALIDATING" /\ sess[s].trajectory_plan.error_step = 0
                  => SafeUnlessError(sess[s].trajectory_plan.safety_result,
                                     sess[s].trajectory_plan.all_waypoints,
                                     safety_config))
            /\ (State(s) = "EXECUTING" \/ sess[s].awaiting_confirmation
                  => /\ SafeUnlessError(sess[s].validation_result,
                                        sess[s].waypoints, safety_config)
                     /\ sess[s].validation_result.is_safe))
    /\ [][\A s \in Sessions :
            (/\ State(s) = "VALIDATING"
             /\ sess'[s].state = "ERROR"
             /\ sess'[s].error_message[1] = "SafetyViolation")
            => ErrorCheckFails(sess[s].waypoints, safety_config)]_vars

\* a session is in EXECUTING with a trajectory that drew a clearance warning
ExecutingDespiteClearanceWarning ==
    \E s \in Sessions :
        /\ State(s) = "EXECUTING"
        /\ sess[s].validation_result.warnings # {}
        /\ sess[s].validation_result.is_safe

\* the linear-velocity check reported the step that ends at waypoint j
LinearViolationAt(j) ==
    \E v \in probe.safety_result.violations :
        v.constraint = "max_linear_velocity" /\ v.waypoint_index = j

\* the test trajectory made of one step of dx cm along x and dz cm along z
IsStep(dx, dz) ==
    /\ Len(probe.trajectory) = 2
    /\ probe.trajectory[2].x - probe.trajectory[1].x = dx
    /\ probe.trajectory[2].y = probe.trajectory[1].y
    /\ probe.trajectory[2].z - probe.trajectory[1].z = dz

IsDefaultConfig == probe.config.assumed_dt = 20 /\ probe.config.max_linear_velocity = 250

\* C22: a step whose distance / assumed_dt equals max_linear_velocity passes
\* the linear-velocity check and a step is an error only when it is strictly
\* faster: a step along one axis is reported exactly when its length exceeds
\* max_linear_velocity * assumed_dt, and with assumed_dt = 2.0 s and 2.5 m/s
\* a step of 5.0 m (also as 3 m by 4 m) passes and one of 5.1 m is an error.
VelocityBoundary ==
    probe.checked =>
        /\ \A dx \in StepLengths :
              IsStep(dx, 0) =>
                (LinearViolationAt(2) <=>
                    10 * dx > probe.config.max_linear_velocity * probe.config.assumed_dt)
        /\ IsDefaultConfig /\ (IsStep(500, 0) \/ IsStep(300, 400)) => ~LinearViolationAt(2)
        /\ IsDefaultConfig /\ (IsStep(510, 0) \/ IsStep(301, 400)) => LinearViolationAt(2)
        /\ Len(probe.trajectory) < 2 => \A j \in 1..2 : ~LinearViolationAt(j)

\* the 5.0 m step was checked under the defaults and the velocity check passed it
StepAtLimitPassed ==
    probe.checked /\ IsDefaultConfig /\ IsStep(500, 0) /\ ~LinearViolationAt(2)

\* the table-collision check reported waypoint j as an error
TableViolationAt(j) ==
    \E v \in probe.safety_result.violations :
        /\ v.constraint = "table_collision"
        /\ v.severity = "error"
        /\ v.waypoint_index = j

\* C23: a waypoint whose y is table_height - table_collision_margin or above
\* passes the table-collision check and every waypoint below that height is
\* an error: with the table at 50 cm and a margin of 1 cm, 49 cm and 50 cm
\* pass and 48 cm is reported.
TableBoundary ==
    probe.checked =>
        \A j \in DOMAIN probe.trajectory :
            /\ TableViolationAt(j) <=>
                 probe.trajectory[j].y + probe.config.table_collision_margin
                    < probe.config.table_height
            /\ probe.trajectory[j].y = 49 => ~TableViolationAt(j)
            /\ probe.trajectory[j].y = 48 => TableViolationAt(j)

\* a trajectory lying exactly at table_height - margin was checked and passed
WaypointAtMarginPassed ==
    /\ probe.checked
    /\ Len(probe.trajectory) >= 1
    /\ probe.trajectory[1].y = probe.config.table_height - probe.config.table_collision_margin
    /\ ~TableViolationAt(1)

\* the invocation under test names a registered primitive and its parameters
\* were accepted
Accepted ==
    /\ probe.ran
    /\ probe.invocation.action \in PRIMITIVE_REGISTRY
    /\ probe.generated.ok

Stacked ==
    /\ Accepted
    /\ probe.invocation.action = "STACK"

StackTarget == probe.scene.objects[probe.invocation.params.target]

\* the waypoint at which the gripper opens: the first one with gripper_open
ReleaseIndex ==
    CHOOSE i \in DOMAIN probe.generated.waypoints :
        /\ probe.generated.waypoints[i].gripper_open
        /\ \A j \in 1..(i - 1) : ~probe.generated.waypoints[j].gripper_open

\* C25: STACK releases at y = target.y + target.size.y / 2 + 5 cm, above the
\* target, and the waypoint before the descent and the one after the release
\* are 25 cm higher: for a target at 60 cm of height 20 cm the gripper opens
\* at 75 cm and both retreat waypoints are at 100 cm.
StackHeights ==
    Stacked =>
        LET w == probe.generated.waypoints
            t == StackTarget
            release_y == t.position[2] + t.size[2] \div 2 + 5
        IN  /\ Len(w) = 4
            /\ ReleaseIndex = 3
            /\ ~w[1].gripper_open /\ ~w[2].gripper_open /\ w[4].gripper_open
            /\ w[2].y = release_y /\ w[3].y = release_y
            /\ w[1].y = release_y + 25 /\ w[4].y = release_y + 25
            /\ \A i \in 1..4 : w[i].x = t.position[1] /\ w[i].z = t.position[3]
            /\ (t.position[2] = 60 /\ t.size[2] = 20) =>
                  w[1].y = 100 /\ w[2].y = 75 /\ w[3].y = 75 /\ w[4].y = 100

\* STACK on the 20 cm box at 60 cm returned the release at 75 cm
StackedOnBlueBoxAt75 ==
    /\ Stacked
    /\ StackTarget.position[2] = 60 /\ StackTarget.size[2] = 20
    /\ probe.generated.waypoints[ReleaseIndex].y = 75

\* the step is a call of send(): one more message has been submitted
SendStep == client'.ws.submitted = client.ws.submitted + 1

\* the step opens a connection: a socket that was connecting is open
OpenStep ==
    \E i \in DOMAIN client.ws.sockets :
        client.ws.sockets[i] = "CONNECTING" /\ client'.ws.sockets[i] = "OPEN"

\* C26: a message passed to send() while the socket is not open is queued,
\* and when a connection opens or re-opens the queued messages are all sent,
\* in the order they were queued, and the queue is left empty.
QueuedThenSentInOrder ==
    [][ /\ (SendStep /\ ~SocketOpen(client.ws)) =>
              client'.ws.messageQueue =
                  Append(client.ws.messageQueue, client'.ws.submitted)
        /\ OpenStep =>
              /\ client'.ws.wire = client.ws.wire \o client.ws.messageQueue
              /\ client'.ws.messageQueue = <<>> ]_vars

\* the delays the documentation gives for the reconnection attempts (ms)
DocumentedDelays == {1000, 2000, 4000, 8000, 10000}

\* the step arms a reconnect timer
ArmStep ==
    /\ client'.ws.reconnectTimer # 0
    /\ \/ client.ws.reconnectTimer = 0
       \/ client'.ws.orphanTimers > client.ws.orphanTimers

\* the step is the expiry of a reconnect timer
ExpiryStep ==
    \/ client.ws.reconnectTimer # 0 /\ client'.ws.reconnectTimer = 0
                                    /\ ~client'.ws.manualClose
    \/ client'.ws.orphanTimers < client.ws.orphanTimers

\* C27: after an unexpected close the client retries with exponential
\* backoff: every delay before an attempt is 1 s, 2 s, 4 s, 8 s or 10 s, each
\* expiry doubles the delay up to 10 s, and the delay returns to 1 s when a
\* connection opens.
BackoffUpToTenSeconds ==
    [][ /\ ArmStep => client'.ws.reconnectTimer \in DocumentedDelays
        /\ ExpiryStep =>
              client'.ws.reconnectDelay =
                  Min(2 * client.ws.reconnectDelay, 10000)
        /\ OpenStep => client'.ws.reconnectDelay = 1000 ]_vars

\* the step is the end of a recognition session
EndStep ==
    client.speech.recognition # "inactive" /\ client'.speech.recognition = "inactive"

\* the step is the expiry of a restart timer
RestartTimerStep == client'.speech.restartTimers < client.speech.restartTimers

\* the step restarts recognition automatically
RestartStep == client'.speech.restarts = client.speech.restarts + 1

ConfirmedAndValid(a) ==
    /\ \E i \in DOMAIN client.teach.extraction.actions :
          client.teach.extraction.actions[i] = a
    /\ a.valid_primitive
    /\ \/ client.teach.decided[a.step] = "confirmed"
       \/ ~a.needs_confirmation /\ client.teach.decided[a.step] = "undecided"

\* the teach_execute messages the step sends
ExecuteMessages ==
    SelectSeq(client'.teach.sent, LAMBDA m : m.type = "teach_execute")

\* C29: a teach_execute message contains only actions of the current
\* extraction that are confirmed, by the user or automatically, and valid;
\* it is sent together with the move to EXECUTING, and when no action is
\* confirmed and valid nothing is sent and the phase does not become
\* EXECUTING.
ExecutesOnlyConfirmedActions ==
    [][ /\ \A k \in DOMAIN ExecuteMessages :
              /\ ExecuteMessages[k].actions # <<>>
              /\ \A i \in DOMAIN ExecuteMessages[k].actions :
                    ConfirmedAndValid(ExecuteMessages[k].actions[i])
              /\ client'.teach.phase = "EXECUTING"
        /\ (client'.teach.phase = "EXECUTING"
              /\ client.teach.phase # "EXECUTING") =>
              Len(ExecuteMessages) = 1
        /\ (~\E i \in DOMAIN client.teach.extraction.actions :
                ConfirmedAndValid(client.teach.extraction.actions[i])) =>
              /\ ExecuteMessages = <<>>
              /\ client'.teach.phase = "EXECUTING" =>
                    client.teach.phase = "EXECUTING" ]_vars

\* the second of two valid actions was confirmed by the user and sent alone,
\* the first one, which needed confirmation, was left out
OnlyTheConfirmedActionSent ==
    /\ client.teach.phase = "EXECUTING"
    /\ Len(client.teach.extraction.actions) = 2
    /\ client.teach.extraction.actions[1].valid_primitive
    /\ client.teach.extraction.actions[1].needs_confirmation
    /\ client.teach.decided[2] = "confirmed"
    /\ Len(client.teach.sent) = 1
    /\ client.teach.sent[1].type = "teach_execute"
    /\ client.teach.sent[1].actions = << client.teach.extraction.actions[2] >>

\* the edges of the lifecycle of the header of puzzleEngine.ts
LifecycleEdges ==
    { <<"IDLE", "SELECTING">>, <<"SELECTING", "READY">>, <<"READY", "PLAYING">>,
      <<"PLAYING", "CHECKING">>, <<"CHECKING", "COMPLETE">>,
      <<"CHECKING", "FAILED">> }

\* C30: the puzzle phase moves only along IDLE -> SELECTING -> READY ->
\* PLAYING -> CHECKING -> COMPLETE / FAILED, or back to SELECTING or IDLE:
\* PLAYING is entered only from READY, and COMPLETE or FAILED only from
\* CHECKING, after the puzzle was PLAYING.
OnlyLifecycleEdges ==
    [][ client'.puzzle.phase # client.puzzle.phase =>
          \/ <<client.puzzle.phase, client'.puzzle.phase>> \in LifecycleEdges
          \/ client'.puzzle.phase \in {"SELECTING", "IDLE"} ]_vars

Board == client.scores.leaderboard

OnBoard == {Board[i] : i \in 1..Len(Board)}

\* C31: after any sequence of addToLeaderboard calls the leaderboard is
\* sorted by score in descending order and holds at most 10 entries, namely
\* the highest-scoring entries added so far: every entry on it was added,
\* no entry left off it scores more than one on it, and an entry is left
\* off only when the list is full
LeaderboardTopTen ==
    /\ Len(Board) <= LEADERBOARD_SIZE
    /\ \A i \in 1..Len(Board) - 1 : Board[i].score >= Board[i + 1].score
    /\ OnBoard \subseteq client.scores.added
    /\ Cardinality(OnBoard) = Len(Board)
    /\ \A e \in client.scores.added \ OnBoard :
          /\ Len(Board) = LEADERBOARD_SIZE
          /\ \A k \in OnBoard : k.score >= e.score

\* the eleventh entry went to the top of a full list and pushed its lowest
\* entry off
EleventhEntryOnTop ==
    /\ Len(Board) = LEADERBOARD_SIZE
    /\ Board[1].id = LEADERBOARD_SIZE + 1
    /\ \E e \in client.scores.added \ OnBoard : e.score < Board[1].score

Answered(c) == Len(c.received)

\* C32: CommandMode drives the arm only for a plan_result whose
\* plan.is_valid is true: every plan that is being executed or has had a
\* waypoint handed to the arm is a valid one, and handling an invalid plan
\* or a plan_error shows ERROR, starts no execution and issues no arm or
\* gripper command
ArmOnlyForValidPlans ==
    [][/\ \A p \in client'.command.armLog :
             client'.command.received[p] = "valid"
       /\ \A x \in client'.command.executions :
             client'.command.received[x.plan] = "valid"
       /\ (/\ Answered(client'.command) > Answered(client.command)
           /\ client'.command.received[Answered(client'.command)] # "valid")
          => /\ client'.command.state = "ERROR"
             /\ client'.command.armLog = client.command.armLog
             /\ client'.command.executions = client.command.executions]_vars

\* a valid plan drove the arm to its end, and the invalid plan and the
\* plan_error that followed left the arm alone and show ERROR
InvalidPlanAndErrorRefused ==
    /\ client.command.received = <<"valid", "invalid", "plan_error">>
    /\ client.command.armLog = {1}
    /\ client.command.executions = {}
    /\ client.command.state = "ERROR"

\* C33: at most one plan's waypoints are being executed at any time
OneExecutionAtATime == Cardinality(client.command.executions) <= 1

InProgress(c) ==
    \/ c.state = "THINKING" /\ c.awaiting > 0
    \/ c.state = "EXECUTING" /\ c.executions # {}

\* C34: no return-to-IDLE timer left over from an earlier command resets
\* the THINKING or EXECUTING shown for a command in progress to IDLE
NoStaleReturnToIdle ==
    [][(/\ client'.command.idleTimers < client.command.idleTimers
        /\ InProgress(client.command))
       => client'.command.state # "IDLE"]_vars

LiveSockets(w) ==
    {i \in DOMAIN w.sockets : w.sockets[i] \in {"OPEN", "CONNECTING"}}

\* a step in which a reconnect timer expired
TimerExpired(w, v) ==
    \/ v.orphanTimers < w.orphanTimers
    \/ w.reconnectTimer # 0 /\ v.reconnectTimer = 0 /\ v.reconnectDelay # w.reconnectDelay

\* C35: the service has at most one open or connecting socket at any time,
\* and after disconnect(), while no connect() has been called again, no
\* reconnect timer creates a socket
OneSocketAndNoReconnectAfterDisconnect ==
    [][/\ Cardinality(LiveSockets(client'.ws)) <= 1
       /\ (client.ws.manualClose /\ TimerExpired(client.ws, client'.ws))
          => client'.ws.sockets = client.ws.sockets]_vars

Ids(commands) == {commands[i].id : i \in 1..Len(commands)}

Resolutions(a) == {a.resolved[i] : i \in 1..Len(a.resolved)}

\* C36: the arm controller executes the queued commands one at a time in
\* the order they were enqueued, a command's promise is resolved exactly
\* once and only when the joints are at that command's target, and a call
\* whose target is outside the workspace is rejected without being enqueued
ArmCommandsInOrder ==
    [][LET a == client.arm
           b == client'.arm
           k == Len(b.resolved)
       IN /\ b.resolved # a.resolved =>
                /\ k = Len(a.resolved) + 1
                /\ b.resolved[k] \notin Resolutions(a)
                /\ b.resolved[k] = b.enqueued[k].id
                /\ b.resolved[k] = a.currentCommand.id
                      \/ (a.currentCommand = NoCommand
                          /\ b.resolved[k] = Head(a.commandQueue).id)
                /\ b.jointAngles = b.enqueued[k].targetAngles
          /\ b.currentCommand # NoCommand =>
                /\ b.currentCommand = b.enqueued[k + 1]
                /\ b.targetAngles = b.currentCommand.targetAngles
          /\ b.outside \subseteq b.rejected
          /\ b.rejected \cap Ids(b.enqueued) = {}]_vars

\* two commands with different targets were resolved in their order, the
\* arm is at the second one's target, and the call for a position outside
\* the workspace was rejected
TwoMovesDoneOneRejected ==
    /\ Len(client.arm.resolved) = 2
    /\ client.arm.enqueued[1].targetAngles # client.arm.enqueued[2].targetAngles
    /\ client.arm.enqueued[1].targetAngles # initialAngles
    /\ client.arm.jointAngles = client.arm.enqueued[2].targetAngles
    /\ client.arm.outside # {}

\* the utterances the synthesizer holds: pending or being spoken
InSynthesizer(t) == Len(t.pending) + (IF t.current # 0 THEN 1 ELSE 0)

\* C37: the service hands utterances to the synthesizer one at a time and
\* in the order of the speak() calls: the synthesizer never holds a second
\* utterance while an earlier one is pending or in progress, the texts are
\* handed over in the order they were passed to speak(), and the status is
\* 'speaking' whenever an utterance is in progress
UtterancesOneAtATime ==
    /\ InSynthesizer(client.tts) <= 1
    /\ \A i \in 1..Len(client.tts.handed) - 1 :
          client.tts.handed[i] < client.tts.handed[i + 1]
    /\ client.tts.current # 0 => client.tts.status = "speaking"

====
